---- MODULE Spec2Model ----
(***************************************************************************)
(* Model of confetto's configuration loader: the schema walker, the three  *)
(* source adapters (CLI, environment, YAML tree), the coercion of raw      *)
(* values into typed parameters, validation, the required check and the    *)
(* aggregation of errors in Loader.Load.                                   *)
(*                                                                         *)
(* Go strings are TLA+ strings, read character by character with Len and   *)
(* SubSeq.  A Go value of type any is a record tagged with its dynamic     *)
(* type in field t (the nil interface is [t |-> "nil"]).                   *)
(***************************************************************************)
EXTENDS Integers, Sequences, FiniteSets, TLC

VARIABLES
    registrations,  \* Loader.registrations: sequence of [prefix, cfg]
    params,         \* the Param cells of the registered structs, by identity
    environ,        \* the process environment: variable name -> value
    files,          \* the file system: path -> file state
    opts,           \* Options of the Load call in progress
    pc,             \* position inside Loader.Load: "idle", "loop", "done"
    sources,        \* the constructed adapters [cli, env, yaml]
    collected,      \* params slice built by collectAllParams (identities)
    idx,            \* index of the next element of the loop over params
    loadErr,        \* loadErr.Errors
    result,         \* what the last Load returned
    loads,          \* number of Load calls started so far
    before,         \* the Param cells as they were when the Load started
    rawValue,       \* loadParam's local `value`, per parameter
    produced,       \* the errors loadParam added, per parameter
    processed,      \* how many times the loop body ran, per parameter
    rendered        \* the text the last Dump or Error call returned

vars == <<registrations, params, environ, files, opts, pc, sources,
          collected, idx, loadErr, result, loads, before, rawValue,
          produced, processed, rendered>>

\* Number of Load calls made on the same schema instance.
MaxLoads == 2

-----------------------------------------------------------------------------
(* Go's strings, strconv and fmt, as far as the loader uses them.          *)

Nil == [t |-> "nil"]

Str(s) == [t |-> "string", v |-> s]

Char(s, i) == SubSeq(s, i, i)

HasPrefix(s, prefix) ==
    Len(s) >= Len(prefix) /\ SubSeq(s, 1, Len(prefix)) = prefix

TrimPrefix(s, prefix) ==
    IF HasPrefix(s, prefix) THEN SubSeq(s, Len(prefix) + 1, Len(s)) ELSE s

\* strings.Index for a one-character separator: 0-based index or -1.
Index(s, c) ==
    IF \E i \in 1..Len(s) : Char(s, i) = c
    THEN (CHOOSE i \in 1..Len(s) :
             Char(s, i) = c /\ \A j \in 1..(i - 1) : Char(s, j) # c) - 1
    ELSE -1

RECURSIVE ReplaceAll(_, _, _)
ReplaceAll(s, old, new) ==
    IF s = "" THEN ""
    ELSE (IF Char(s, 1) = old THEN new ELSE Char(s, 1))
             \o ReplaceAll(SubSeq(s, 2, Len(s)), old, new)

LowerLetters == "abcdefghijklmnopqrstuvwxyz"
UpperLetters == "ABCDEFGHIJKLMNOPQRSTUVWXYZ"

UpperChar(c) ==
    IF \E i \in 1..Len(LowerLetters) : Char(LowerLetters, i) = c
    THEN Char(UpperLetters,
              CHOOSE i \in 1..Len(LowerLetters) : Char(LowerLetters, i) = c)
    ELSE c

RECURSIVE ToUpper(_)
ToUpper(s) ==
    IF s = "" THEN "" ELSE UpperChar(Char(s, 1)) \o ToUpper(SubSeq(s, 2, Len(s)))

\* strings.Split for a non-empty separator.
RECURSIVE Split(_, _)
Split(s, sep) ==
    IF \E i \in 1..(Len(s) - Len(sep) + 1) : SubSeq(s, i, i + Len(sep) - 1) = sep
    THEN LET i == CHOOSE i \in 1..(Len(s) - Len(sep) + 1) :
                      /\ SubSeq(s, i, i + Len(sep) - 1) = sep
                      /\ \A j \in 1..(i - 1) : SubSeq(s, j, j + Len(sep) - 1) # sep
         IN  <<SubSeq(s, 1, i - 1)>> \o Split(SubSeq(s, i + Len(sep), Len(s)), sep)
    ELSE <<s>>

Digits == "0123456789"

IsDigit(c) == \E i \in 1..10 : Char(Digits, i) = c

DigitVal(c) == (CHOOSE i \in 1..10 : Char(Digits, i) = c) - 1

RECURSIVE DigitsVal(_, _)
DigitsVal(s, acc) ==
    IF s = "" THEN acc
    ELSE DigitsVal(SubSeq(s, 2, Len(s)), acc * 10 + DigitVal(Char(s, 1)))

\* strconv.Atoi: an optional sign followed by one or more decimal digits.
\* The texts of the model are short, so the range check never fires.
Atoi(s) ==
    LET signed == Len(s) > 0 /\ Char(s, 1) \in {"+", "-"}
        body   == IF signed THEN SubSeq(s, 2, Len(s)) ELSE s
    IN  IF body = "" \/ \E i \in 1..Len(body) : ~IsDigit(Char(body, i))
        THEN [ok |-> FALSE, v |-> 0,
              err |-> [Func |-> "Atoi", Num |-> s, Err |-> "invalid syntax"]]
        ELSE [ok |-> TRUE,
              v |-> IF signed /\ Char(s, 1) = "-"
                    THEN 0 - DigitsVal(body, 0) ELSE DigitsVal(body, 0),
              err |-> Nil]

RECURSIVE NatToA(_)
NatToA(n) ==
    IF n < 10 THEN Char(Digits, n + 1)
    ELSE NatToA(n \div 10) \o Char(Digits, (n % 10) + 1)

\* The %d and %v rendering of an int.
Itoa(n) == IF n < 0 THEN "-" \o NatToA(0 - n) ELSE NatToA(n)

\* errors.New / fmt.Errorf: an error that is only its text.
errorString(msg) == [t |-> "errorString", msg |-> msg]

\* %q of a text of printable characters: in double quotes, with a backslash
\* before every double quote and every backslash.
RECURSIVE Quoted(_)
Quoted(s) ==
    IF s = "" THEN ""
    ELSE (IF Char(s, 1) = "\"" THEN "\\\""
          ELSE IF Char(s, 1) = "\\" THEN "\\\\"
          ELSE Char(s, 1)) \o Quoted(SubSeq(s, 2, Len(s)))

Quote(s) == "\"" \o Quoted(s) \o "\""

\* strings.TrimSpace for the white space of the model's texts: what lies
\* between the first and the last character that is not white space.
TrimSpace(s) ==
    LET inked == { i \in 1..Len(s) : Char(s, i) \notin {" ", "\t", "\n", "\r"} }
    IN  IF inked = {} THEN ""
        ELSE SubSeq(s, CHOOSE i \in inked : \A j \in inked : i <= j,
                       CHOOSE i \in inked : \A j \in inked : j <= i)

\* strconv.ParseBool.
ParseBool(s) ==
    IF s \in {"1", "t", "T", "TRUE", "true", "True"}
    THEN [ok |-> TRUE, v |-> TRUE, err |-> Nil]
    ELSE IF s \in {"0", "f", "F", "FALSE", "false", "False"}
    THEN [ok |-> TRUE, v |-> FALSE, err |-> Nil]
    ELSE [ok |-> FALSE, v |-> FALSE,
          err |-> [Func |-> "ParseBool", Num |-> s, Err |-> "invalid syntax"]]

\* A float64 is held as its number of thousandths.  strconv.ParseFloat for
\* a decimal text: an optional sign, digits, and an optional point followed
\* by digits, with a digit on one side at least.  The texts of the model
\* have no exponent, are not hexadecimal, inf or nan, and have at most
\* three digits after the point.
ParseFloat(s) ==
    LET failure == [ok |-> FALSE, v |-> 0,
                    err |-> [Func |-> "ParseFloat", Num |-> s,
                             Err |-> "invalid syntax"]]
        number(neg, whole, frac) ==
            IF /\ \A i \in 1..Len(whole) : IsDigit(Char(whole, i))
               /\ \A i \in 1..Len(frac) : IsDigit(Char(frac, i))
               /\ (whole # "" \/ frac # "")
            THEN [ok |-> TRUE,
                  v |-> (IF neg THEN -1 ELSE 1)
                          * (DigitsVal(whole, 0) * 1000
                               + DigitsVal(SubSeq(frac \o "000", 1, 3), 0)),
                  err |-> Nil]
            ELSE failure
        unsigned(neg, body) ==
            IF Index(body, ".") < 0 THEN number(neg, body, "")
            ELSE number(neg, SubSeq(body, 1, Index(body, ".")),
                        SubSeq(body, Index(body, ".") + 2, Len(body)))
    IN  IF s # "" /\ Char(s, 1) \in {"+", "-"}
        THEN unsigned(Char(s, 1) = "-", SubSeq(s, 2, Len(s)))
        ELSE unsigned(FALSE, s)

\* Division that truncates toward zero, as Go's conversions to an integer.
Quot(a, b) == IF a >= 0 THEN a \div b ELSE 0 - ((0 - a) \div b)

\* A time.Duration is a count of nanoseconds, held as whole seconds and
\* the nanoseconds left, both of the sign of the duration.
Second == 1000000000

Dur(sec, nsec) == [sec |-> sec, nsec |-> nsec]

\* time.Duration(n) for an int n.
Duration(n) == Dur(Quot(n, Second), n - Second * Quot(n, Second))

AddDur(a, b) ==
    Dur(a.sec + b.sec + (a.nsec + b.nsec) \div Second,
        (a.nsec + b.nsec) % Second)

\* The units of time.unitMap with a name in ASCII: the seconds of the
\* units from the second up, the nanoseconds of those below.
unitMap ==
    [h  |-> [sec |-> 3600, nsec |-> 0], m  |-> [sec |-> 60, nsec |-> 0],
     s  |-> [sec |-> 1, nsec |-> 0],    ms |-> [sec |-> 0, nsec |-> 1000000],
     us |-> [sec |-> 0, nsec |-> 1000], ns |-> [sec |-> 0, nsec |-> 1]]

\* v units and f thousandths of a unit more, as a duration.
GroupDur(v, f, u) ==
    IF unitMap[u].sec > 0
    THEN Dur(v * unitMap[u].sec + (f * unitMap[u].sec) \div 1000,
             ((f * unitMap[u].sec) % 1000) * 1000000)
    ELSE Dur((v * unitMap[u].nsec + (f * unitMap[u].nsec) \div 1000) \div Second,
             (v * unitMap[u].nsec + (f * unitMap[u].nsec) \div 1000) % Second)

DurationFailure(msg) ==
    [ok |-> FALSE, v |-> Dur(0, 0), err |-> errorString(msg)]

\* The loop of time.ParseDuration, one character at a time: ph tells
\* whether the scan is at the start of a number, in the digits before the
\* point, in those after it, or in the unit; whole, frac and unit are what
\* has been read of the group, acc the sum of the groups before it.  The
\* numbers of the model's texts have at most three digits after the point.
RECURSIVE scanDuration(_, _, _, _, _, _, _, _)
scanDuration(s, orig, neg, ph, whole, frac, unit, acc) ==
    LET c       == IF s = "" THEN "" ELSE Char(s, 1)
        rest    == SubSeq(s, 2, Len(s))
        invalid == DurationFailure("time: invalid duration " \o Quote(orig))
    IN  CASE ph = "number" ->
               IF s = ""
               THEN [ok |-> TRUE,
                     v |-> IF neg THEN Dur(0 - acc.sec, 0 - acc.nsec) ELSE acc,
                     err |-> Nil]
               ELSE IF IsDigit(c)
               THEN scanDuration(rest, orig, neg, "whole", c, "", "", acc)
               ELSE IF c = "."
               THEN scanDuration(rest, orig, neg, "frac", "", "", "", acc)
               ELSE invalid
          [] ph = "whole" ->
               IF IsDigit(c)
               THEN scanDuration(rest, orig, neg, "whole", whole \o c, "", "", acc)
               ELSE IF c = "."
               THEN scanDuration(rest, orig, neg, "frac", whole, "", "", acc)
               ELSE scanDuration(s, orig, neg, "unit", whole, "", "", acc)
          [] ph = "frac" ->
               IF IsDigit(c)
               THEN scanDuration(rest, orig, neg, "frac", whole, frac \o c, "", acc)
               ELSE IF whole = "" /\ frac = "" THEN invalid
               ELSE scanDuration(s, orig, neg, "unit", whole, frac, "", acc)
          [] OTHER ->
               IF c # "" /\ c # "." /\ ~IsDigit(c)
               THEN scanDuration(rest, orig, neg, "unit", whole, frac, unit \o c, acc)
               ELSE IF unit = ""
               THEN DurationFailure("time: missing unit in duration "
                                      \o Quote(orig))
               ELSE IF unit \notin DOMAIN unitMap
               THEN DurationFailure("time: unknown unit " \o Quote(unit)
                                      \o " in duration " \o Quote(orig))
               ELSE scanDuration(s, orig, neg, "number", "", "", "",
                        AddDur(acc, GroupDur(DigitsVal(whole, 0),
                                   DigitsVal(SubSeq(frac \o "000", 1, 3), 0),
                                   unit)))

\* time.ParseDuration.
ParseDuration(s) ==
    LET signed == s # "" /\ Char(s, 1) \in {"+", "-"}
        body   == IF signed THEN SubSeq(s, 2, Len(s)) ELSE s
    IN  IF body = "0" THEN [ok |-> TRUE, v |-> Dur(0, 0), err |-> Nil]
        ELSE IF body = ""
        THEN DurationFailure("time: invalid duration " \o Quote(s))
        ELSE scanDuration(body, s, signed /\ Char(s, 1) = "-", "number",
                          "", "", "", Dur(0, 0))

\* The %v rendering of a float64 of the model: the shortest decimal text.
SprintFloat(m) ==
    LET a    == IF m < 0 THEN 0 - m ELSE m
        f    == a % 1000
        frac == IF f % 10 # 0
                THEN NatToA(f \div 100) \o NatToA((f \div 10) % 10) \o NatToA(f % 10)
                ELSE IF (f \div 10) % 10 # 0
                THEN NatToA(f \div 100) \o NatToA((f \div 10) % 10)
                ELSE NatToA(f \div 100)
    IN  (IF m < 0 THEN "-" ELSE "") \o NatToA(a \div 1000)
            \o (IF f = 0 THEN "" ELSE "." \o frac)

\* fmt.Sprintf("%v", v) for a decoded YAML value or a typed slice.
RECURSIVE Sprint(_)
RECURSIVE SprintList(_)
RECURSIVE SprintMap(_, _)
SprintList(l) ==
    IF l = <<>> THEN ""
    ELSE Sprint(l[1]) \o (IF Len(l) > 1 THEN " " ELSE "") \o SprintList(Tail(l))
\* map entries are printed in sorted key order; the maps printed by the
\* model have at most one key.
SprintMap(m, keys) ==
    IF keys = {} THEN ""
    ELSE LET k == CHOOSE k \in keys : TRUE
         IN  k \o ":" \o Sprint(m[k])
               \o (IF keys = {k} THEN "" ELSE " ") \o SprintMap(m, keys \ {k})
Sprint(v) ==
    CASE v.t = "string" -> v.v
      [] v.t = "int"    -> Itoa(v.v)
      [] v.t = "bool"   -> IF v.v THEN "true" ELSE "false"
      [] v.t = "float64" -> SprintFloat(v.v)
      [] v.t = "list"   -> "[" \o SprintList(v.v) \o "]"
      [] v.t = "slice"  ->
             "[" \o SprintList([i \in 1..Len(v.v) |-> [t |-> v.elem, v |-> v.v[i]]])
                 \o "]"
      [] v.t = "map"    -> "map[" \o SprintMap(v.v, DOMAIN v.v) \o "]"
      [] OTHER          -> "<nil>"

\* m[k] = v on a Go map.
MapPut(m, k, v) == [x \in DOMAIN m \cup {k} |-> IF x = k THEN v ELSE m[x]]

EmptyMap == [x \in {} |-> ""]

-----------------------------------------------------------------------------
(* Source adapters.                                                        *)

\* strings.LastIndex for a one-character separator: 0-based index or -1.
LastIndex(s, c) ==
    IF \E i \in 1..Len(s) : Char(s, i) = c
    THEN (CHOOSE i \in 1..Len(s) :
             Char(s, i) = c /\ \A j \in (i + 1)..Len(s) : Char(s, j) # c) - 1
    ELSE -1

\* A newCLISource that takes every token starting with "-" as a flag.
RECURSIVE cliScan_SingleDash(_, _, _)
cliScan_SingleDash(args, i, values) ==
    IF i > Len(args) THEN values
    ELSE IF ~HasPrefix(args[i], "-") THEN cliScan_SingleDash(args, i + 1, values)
    ELSE LET arg == TrimPrefix(args[i], "--")
             eq  == Index(arg, "=")
         IN  IF eq # -1
             THEN cliScan_SingleDash(args, i + 1,
                          MapPut(values, SubSeq(arg, 1, eq),
                                 SubSeq(arg, eq + 2, Len(arg))))
             ELSE IF i + 1 <= Len(args) /\ ~HasPrefix(args[i + 1], "-")
             THEN cliScan_SingleDash(args, i + 2, MapPut(values, arg, args[i + 1]))
             ELSE cliScan_SingleDash(args, i + 1, MapPut(values, arg, "true"))

\* A newCLISource that takes the next token as the value whatever it is.
RECURSIVE cliScan_TakesAnyNext(_, _, _)
cliScan_TakesAnyNext(args, i, values) ==
    IF i > Len(args) THEN values
    ELSE IF ~HasPrefix(args[i], "--") THEN cliScan_TakesAnyNext(args, i + 1, values)
    ELSE LET arg == TrimPrefix(args[i], "--")
             eq  == Index(arg, "=")
         IN  IF eq # -1
             THEN cliScan_TakesAnyNext(args, i + 1,
                          MapPut(values, SubSeq(arg, 1, eq),
                                 SubSeq(arg, eq + 2, Len(arg))))
             ELSE IF i + 1 <= Len(args)
             THEN cliScan_TakesAnyNext(args, i + 2, MapPut(values, arg, args[i + 1]))
             ELSE cliScan_TakesAnyNext(args, i + 1, MapPut(values, arg, "true"))

\* A newCLISource that splits --key=value at the last "=".
RECURSIVE cliScan_SplitsAtLastEq(_, _, _)
cliScan_SplitsAtLastEq(args, i, values) ==
    IF i > Len(args) THEN values
    ELSE IF ~HasPrefix(args[i], "--") THEN cliScan_SplitsAtLastEq(args, i + 1, values)
    ELSE LET arg == TrimPrefix(args[i], "--")
             eq  == LastIndex(arg, "=")
         IN  IF eq # -1
             THEN cliScan_SplitsAtLastEq(args, i + 1,
                          MapPut(values, SubSeq(arg, 1, eq),
                                 SubSeq(arg, eq + 2, Len(arg))))
             ELSE IF i + 1 <= Len(args) /\ ~HasPrefix(args[i + 1], "--")
             THEN cliScan_SplitsAtLastEq(args, i + 2, MapPut(values, arg, args[i + 1]))
             ELSE cliScan_SplitsAtLastEq(args, i + 1, MapPut(values, arg, "true"))

\* m[k] = v only if m has no k yet.
MapPutIfAbsent(m, k, v) == IF k \in DOMAIN m THEN m ELSE MapPut(m, k, v)

\* A newCLISource that keeps the first value of a key.
RECURSIVE cliScan_FirstWins(_, _, _)
cliScan_FirstWins(args, i, values) ==
    IF i > Len(args) THEN values
    ELSE IF ~HasPrefix(args[i], "--") THEN cliScan_FirstWins(args, i + 1, values)
    ELSE LET arg == TrimPrefix(args[i], "--")
             eq  == Index(arg, "=")
         IN  IF eq # -1
             THEN cliScan_FirstWins(args, i + 1,
                          MapPutIfAbsent(values, SubSeq(arg, 1, eq),
                                         SubSeq(arg, eq + 2, Len(arg))))
             ELSE IF i + 1 <= Len(args) /\ ~HasPrefix(args[i + 1], "--")
             THEN cliScan_FirstWins(args, i + 2,
                          MapPutIfAbsent(values, arg, args[i + 1]))
             ELSE cliScan_FirstWins(args, i + 1, MapPutIfAbsent(values, arg, "true"))

\* The loop of newCLISource from index i (1-based) with the map built so far.
RECURSIVE cliScan(_, _, _)
cliScan(args, i, values) ==
    IF i > Len(args) THEN values
    ELSE IF ~HasPrefix(args[i], "--") THEN cliScan(args, i + 1, values)
    ELSE LET arg == TrimPrefix(args[i], "--")
             eq  == Index(arg, "=")
         IN  IF eq # -1
             THEN cliScan(args, i + 1,
                          MapPut(values, SubSeq(arg, 1, eq),
                                 SubSeq(arg, eq + 2, Len(arg))))
             ELSE IF i + 1 <= Len(args) /\ ~HasPrefix(args[i + 1], "--")
             THEN cliScan(args, i + 2, MapPut(values, arg, args[i + 1]))
             ELSE cliScan(args, i + 1, MapPut(values, arg, "true"))

newCLISource(args) == [values |-> cliScan(args, 1, EmptyMap)]

cliGet(s, key) ==
    IF key \in DOMAIN s.values THEN Str(s.values[key]) ELSE Nil

newEnvSource(prefix) == [prefix |-> prefix]

envKey(s, key) ==
    LET name == ToUpper(ReplaceAll(key, ".", "_"))
    IN  IF s.prefix # "" THEN s.prefix \o "_" \o name ELSE name

\* An envSource.get that reads with os.Getenv and takes "" as unset.
envGet_EmptyIsAbsent(s, env, key) ==
    IF envKey(s, key) \in DOMAIN env /\ env[envKey(s, key)] # ""
    THEN Str(env[envKey(s, key)]) ELSE Nil

\* os.LookupEnv on the process environment env.
envGet(s, env, key) ==
    IF envKey(s, key) \in DOMAIN env THEN Str(env[envKey(s, key)]) ELSE Nil

\* A file of the file system.  yaml.Unmarshal is an external collaborator:
\* a well-formed file is given by the tree it decodes to.
Missing     == [t |-> "missing"]
Unreadable  == [t |-> "unreadable"]
Malformed   == [t |-> "malformed"]
Yaml(tree)  == [t |-> "yaml", data |-> tree]

FileAt(fs, path) == IF path \in DOMAIN fs THEN fs[path] ELSE Missing

\* The paths of the model contain neither ~ nor $, so the two expansions
\* of FindConfigFile leave them as they are; os.Stat succeeds on any file
\* that exists, readable or not.
\* A FindConfigFile that keeps looking after a path that exists, and
\* returns the last one.
RECURSIVE FindConfigFile_Last(_, _)
FindConfigFile_Last(fs, paths) ==
    IF paths = <<>> THEN ""
    ELSE IF FindConfigFile_Last(fs, Tail(paths)) # ""
    THEN FindConfigFile_Last(fs, Tail(paths))
    ELSE IF FileAt(fs, paths[1]).t # "missing" THEN paths[1]
    ELSE ""

RECURSIVE FindConfigFile(_, _)
FindConfigFile(fs, paths) ==
    IF paths = <<>> THEN ""
    ELSE IF FileAt(fs, paths[1]).t # "missing" THEN paths[1]
    ELSE FindConfigFile(fs, Tail(paths))

\* A newYAMLSource without the os.IsNotExist test.
newYAMLSource_MissingIsError(fs, filename) ==
    IF filename = "" THEN [err |-> Nil, data |-> EmptyMap]
    ELSE LET f == FileAt(fs, filename)
         IN  CASE f.t \in {"missing", "unreadable"}
                       -> [err |-> [t |-> "PathError", path |-> filename],
                           data |-> EmptyMap]
               [] f.t = "malformed"  -> [err |-> [t |-> "yamlError", path |-> filename],
                                         data |-> EmptyMap]
               [] OTHER              -> [err |-> Nil, data |-> f.data]

newYAMLSource(fs, filename) ==
    IF filename = "" THEN [err |-> Nil, data |-> EmptyMap]
    ELSE LET f == FileAt(fs, filename)
         IN  CASE f.t = "missing"    -> [err |-> Nil, data |-> EmptyMap]
               [] f.t = "unreadable" -> [err |-> [t |-> "PathError", path |-> filename],
                                         data |-> EmptyMap]
               [] f.t = "malformed"  -> [err |-> [t |-> "yamlError", path |-> filename],
                                         data |-> EmptyMap]
               [] OTHER              -> [err |-> Nil, data |-> f.data]

\* A yamlSource.get that returns the node it stopped at when that node is
\* not a mapping.
RECURSIVE yamlWalk_StopsAtScalar(_, _)
yamlWalk_StopsAtScalar(current, parts) ==
    IF parts = <<>> THEN current
    ELSE IF current.t # "map" THEN current
    ELSE IF parts[1] \notin DOMAIN current.v THEN Nil
    ELSE yamlWalk_StopsAtScalar(current.v[parts[1]], Tail(parts))

\* The loop of yamlSource.get over the parts of the key.
RECURSIVE yamlWalk(_, _)
yamlWalk(current, parts) ==
    IF parts = <<>> THEN current
    ELSE IF current.t # "map" THEN Nil
    ELSE IF parts[1] \notin DOMAIN current.v THEN Nil
    ELSE yamlWalk(current.v[parts[1]], Tail(parts))

yamlGet(s, key) == yamlWalk([t |-> "map", v |-> s.data], Split(key, "."))

\* The sources slice built as {envSrc, cliSrc, yamlSrc}.
sourceGet_EnvFirst(srcs, env, n, key) ==
    CASE n = 1 -> envGet(srcs.env, env, key)
      [] n = 2 -> cliGet(srcs.cli, key)
      [] n = 3 -> yamlGet(srcs.yaml, key)

\* src.get(key) for the source at position n of the sources slice.
sourceGet(srcs, env, n, key) ==
    CASE n = 1 -> cliGet(srcs.cli, key)
      [] n = 2 -> envGet(srcs.env, env, key)
      [] n = 3 -> yamlGet(srcs.yaml, key)

-----------------------------------------------------------------------------
(* Parameters, builders, validators and errors.                            *)

ParseError(key, value, expected, err) ==
    [t |-> "ParseError", Key |-> key, Value |-> value,
     Expected |-> expected, Err |-> err]

ValidationError(key, value, message) ==
    [t |-> "ValidationError", Key |-> key, Value |-> value, Message |-> message]

RequiredError(key) == [t |-> "RequiredError", Key |-> key]

\* The zero value of a parameter's type T.
ZeroValue(kind) ==
    CASE kind = "string" -> ""
      [] kind = "int"    -> 0
      [] kind = "bool"   -> FALSE
      [] kind = "float64" -> 0
      [] kind = "duration" -> Dur(0, 0)
      [] OTHER           -> << >>

\* String() / Int(): a builder holding a zero param.
NewBuilder(kind) ==
    [kind |-> kind, value |-> ZeroValue(kind), defaultVal |-> ZeroValue(kind),
     hasDefVal |-> FALSE, set |-> FALSE, required |-> FALSE, desc |-> "",
     k |-> "", secret |-> FALSE, validators |-> <<>>]

\* A Default that also marks the parameter as set.
Default_MarksSet(b, v) ==
    [b EXCEPT !.defaultVal = v, !.value = v, !.hasDefVal = TRUE, !.set = TRUE]

Default(b, v) == [b EXCEPT !.defaultVal = v, !.value = v, !.hasDefVal = TRUE]

Required(b) == [b EXCEPT !.required = TRUE]

Validate(b, fn) == [b EXCEPT !.validators = Append(@, fn)]

Build(b) == b

\* The validators of validators.go, as data; Call applies one to a value
\* and returns nil or the error with its message.
Range(lo, hi) == [name |-> "Range", lo |-> lo, hi |-> hi]
NotEmpty == [name |-> "NotEmpty"]
Positive == [name |-> "Positive"]

ErrValidation == "validation error"

Failure(msg) == [t |-> "error", msg |-> msg]

Call(fn, v) ==
    CASE fn.name = "Range" ->
             IF v < fn.lo \/ v > fn.hi
             THEN Failure(ErrValidation \o ": value " \o Itoa(v)
                            \o " is not in range [" \o Itoa(fn.lo) \o ", "
                            \o Itoa(fn.hi) \o "]")
             ELSE Nil
      [] fn.name = "NotEmpty" ->
             IF v = ""
             THEN Failure(ErrValidation \o ": string must not be empty")
             ELSE Nil
      [] fn.name = "Positive" ->
             IF v <= 0
             THEN Failure(ErrValidation \o ": value " \o Itoa(v)
                            \o " must be positive")
             ELSE Nil

\* p.value as a value of type any.
Boxed(p) == [t |-> p.kind, v |-> p.value]

\* The validators that the loop of param.validate calls, from validator i
\* on, by their positions in p.validators.
RECURSIVE validateCalled(_, _)
validateCalled(p, i) ==
    IF i > Len(p.validators) THEN << >>
    ELSE IF Call(p.validators[i], p.value).t # "nil" THEN << i >>
    ELSE << i >> \o validateCalled(p, i + 1)

\* A param.validate that runs every validator and reports the last failure.
RECURSIVE validateFrom_ReportsLast(_, _)
validateFrom_ReportsLast(p, i) ==
    IF i > Len(p.validators) THEN Nil
    ELSE IF validateFrom_ReportsLast(p, i + 1).t # "nil"
    THEN validateFrom_ReportsLast(p, i + 1)
    ELSE IF Call(p.validators[i], p.value).t # "nil"
    THEN ValidationError(p.k, Boxed(p), Call(p.validators[i], p.value).msg)
    ELSE Nil

\* param.validate from validator i on: nil or the first ValidationError.
RECURSIVE validateFrom(_, _)
validateFrom(p, i) ==
    IF i > Len(p.validators) THEN Nil
    ELSE IF Call(p.validators[i], p.value).t # "nil"
    THEN ValidationError(p.k, Boxed(p), Call(p.validators[i], p.value).msg)
    ELSE validateFrom(p, i + 1)

\* A param.validate that leaves a parameter no source has set alone.
validate_SkipsUnset(p) == IF ~p.set THEN Nil ELSE validateFrom(p, 1)

validate(p) == validateFrom(p, 1)

-----------------------------------------------------------------------------
(* Coercion.  Each operator returns the parameter as the method leaves it  *)
(* and the error it returns.                                               *)

Done(p, err) == [p |-> p, err |-> err]

StringParam_setFromString(p, s, sep) ==
    Done([p EXCEPT !.value = s, !.set = TRUE], Nil)

StringParam_setFromAny(p, v, sep) ==
    IF v.t = "string"
    THEN Done([p EXCEPT !.value = v.v, !.set = TRUE], Nil)
    ELSE Done([p EXCEPT !.value = Sprint(v), !.set = TRUE], Nil)

IntParam_setFromString(p, s, sep) ==
    IF ~Atoi(s).ok
    THEN Done(p, ParseError(p.k, s, "int", Atoi(s).err))
    ELSE Done([p EXCEPT !.value = Atoi(s).v, !.set = TRUE], Nil)

IntParam_setFromAny(p, v, sep) ==
    CASE v.t = "int"    -> Done([p EXCEPT !.value = v.v, !.set = TRUE], Nil)
      [] v.t = "float64" ->
             Done([p EXCEPT !.value = Quot(v.v, 1000), !.set = TRUE], Nil)
      [] v.t = "string" -> IntParam_setFromString(p, v.v, "")
      [] OTHER          -> Done(p, ParseError(p.k, Sprint(v), "int", Nil))

BoolParam_setFromString(p, s, sep) ==
    LET from(r) ==
            IF ~r.ok THEN Done(p, ParseError(p.k, s, "bool", r.err))
            ELSE Done([p EXCEPT !.value = r.v, !.set = TRUE], Nil)
    IN  from(ParseBool(s))

BoolParam_setFromAny(p, v, sep) ==
    CASE v.t = "bool"   -> Done([p EXCEPT !.value = v.v, !.set = TRUE], Nil)
      [] v.t = "string" -> BoolParam_setFromString(p, v.v, "")
      [] OTHER          -> Done(p, ParseError(p.k, Sprint(v), "bool", Nil))

FloatParam_setFromString(p, s, sep) ==
    LET from(r) ==
            IF ~r.ok THEN Done(p, ParseError(p.k, s, "float64", r.err))
            ELSE Done([p EXCEPT !.value = r.v, !.set = TRUE], Nil)
    IN  from(ParseFloat(s))

FloatParam_setFromAny(p, v, sep) ==
    CASE v.t = "float64" -> Done([p EXCEPT !.value = v.v, !.set = TRUE], Nil)
      [] v.t = "int"    ->
             Done([p EXCEPT !.value = v.v * 1000, !.set = TRUE], Nil)
      [] v.t = "string" -> FloatParam_setFromString(p, v.v, "")
      [] OTHER          -> Done(p, ParseError(p.k, Sprint(v), "float64", Nil))

DurationParam_setFromString(p, s, sep) ==
    LET from(r) ==
            IF ~r.ok THEN Done(p, ParseError(p.k, s, "duration", r.err))
            ELSE Done([p EXCEPT !.value = r.v, !.set = TRUE], Nil)
    IN  from(ParseDuration(s))

DurationParam_setFromAny(p, v, sep) ==
    CASE v.t = "string" -> DurationParam_setFromString(p, v.v, "")
      [] v.t = "int"    ->
             Done([p EXCEPT !.value = Duration(v.v), !.set = TRUE], Nil)
      [] v.t = "float64" ->
             Done([p EXCEPT !.value = Duration(Quot(v.v, 1000)), !.set = TRUE], Nil)
      [] OTHER          -> Done(p, ParseError(p.k, Sprint(v), "duration", Nil))

StringListParam_setFromString(p, s, sep) ==
    IF s = "" THEN Done([p EXCEPT !.value = << >>, !.set = TRUE], Nil)
    ELSE Done([p EXCEPT !.value = Split(s, sep), !.set = TRUE], Nil)

StringListParam_setFromAny(p, v, sep) ==
    CASE v.t = "list"   ->
             Done([p EXCEPT !.value = [i \in 1..Len(v.v) |-> Sprint(v.v[i])],
                            !.set = TRUE], Nil)
      [] v.t = "slice" /\ v.elem = "string" ->
             Done([p EXCEPT !.value = v.v, !.set = TRUE], Nil)
      [] v.t = "string" -> StringListParam_setFromString(p, v.v, sep)
      [] OTHER          -> Done(p, ParseError(p.k, Sprint(v), "[]string", Nil))

\* The element conversions of the four list kinds with parsed elements,
\* by the element kind: strconv.Atoi, strconv.ParseBool,
\* strconv.ParseFloat and time.ParseDuration.
ParseElem(elem, s) ==
    CASE elem = "int"     -> Atoi(s)
      [] elem = "bool"    -> ParseBool(s)
      [] elem = "float64" -> ParseFloat(s)
      [] OTHER            -> ParseDuration(s)

\* The smallest member of a non-empty set of indexes.
Least(S) == CHOOSE i \in S : \A j \in S : i <= j

\* The loop of the four setFromString over the parts, given what each part
\* converts to: the slice was made before the loop, the loop fills it up
\* to the first part that does not convert and returns there.
listLoop(p, parts, res, elem) ==
    LET stop(bad) ==
            IF bad # {}
            THEN Done([p EXCEPT !.value =
                          [i \in 1..Len(parts) |->
                              IF i < Least(bad) THEN res[i].v ELSE ZeroValue(elem)]],
                      ParseError(p.k, parts[Least(bad)], elem, res[Least(bad)].err))
            ELSE Done([p EXCEPT !.value = [i \in 1..Len(parts) |-> res[i].v],
                                !.set = TRUE], Nil)
    IN  stop({ i \in 1..Len(parts) : ~res[i].ok })

\* A setFromString that has no case for the empty text.
listFromString_NoEmptyCase(p, s, sep, elem) ==
    LET split(parts) ==
            listLoop(p, parts,
                     [i \in 1..Len(parts) |-> ParseElem(elem, TrimSpace(parts[i]))],
                     elem)
    IN  split(Split(s, sep))

\* A setFromString that goes through all the parts and returns the error
\* of the last one that failed.
listFromString_ReportsLast(p, s, sep, elem) ==
    LET parts == Split(s, sep)
        res   == [i \in 1..Len(parts) |-> ParseElem(elem, TrimSpace(parts[i]))]
        bad   == { i \in 1..Len(parts) : ~res[i].ok }
        last  == CHOOSE i \in bad : \A j \in bad : j <= i
    IN  IF s = ""
        THEN Done([p EXCEPT !.value = << >>, !.set = TRUE], Nil)
        ELSE IF bad # {}
        THEN Done([p EXCEPT !.value =
                      [i \in 1..Len(parts) |->
                          IF res[i].ok THEN res[i].v ELSE ZeroValue(elem)]],
                  ParseError(p.k, parts[last], elem, res[last].err))
        ELSE Done([p EXCEPT !.value = [i \in 1..Len(parts) |-> res[i].v],
                            !.set = TRUE], Nil)

\* setFromString of IntListParam, BoolListParam, FloatListParam and
\* DurationListParam, which differ in the element conversion only.
listFromString(p, s, sep, elem) ==
    LET split(parts) ==
            listLoop(p, parts,
                     [i \in 1..Len(parts) |-> ParseElem(elem, TrimSpace(parts[i]))],
                     elem)
    IN  IF s = ""
        THEN Done([p EXCEPT !.value = << >>, !.set = TRUE], Nil)
        ELSE split(Split(s, sep))

\* The type switch on one item of a []any, by the element kind.
ElemFromAny(elem, item, k) ==
    LET bad == [ok |-> FALSE, v |-> ZeroValue(elem),
                err |-> ParseError(k, Sprint(item), elem, Nil)]
        ok(v) == [ok |-> TRUE, v |-> v, err |-> Nil]
        parsed(r) ==
            IF r.ok THEN ok(r.v)
            ELSE [ok |-> FALSE, v |-> ZeroValue(elem),
                  err |-> ParseError(k, item.v, elem, r.err)]
    IN  CASE elem = "int" ->
               (CASE item.t = "int"     -> ok(item.v)
                  [] item.t = "float64" -> ok(Quot(item.v, 1000))
                  [] OTHER              -> bad)
          [] elem = "bool" ->
               (CASE item.t = "bool"    -> ok(item.v)
                  [] OTHER              -> bad)
          [] elem = "float64" ->
               (CASE item.t = "float64" -> ok(item.v)
                  [] item.t = "int"     -> ok(item.v * 1000)
                  [] OTHER              -> bad)
          [] OTHER ->
               (CASE item.t = "string"  -> parsed(ParseDuration(item.v))
                  [] item.t = "int"     -> ok(Duration(item.v))
                  [] item.t = "float64" -> ok(Duration(Quot(item.v, 1000)))
                  [] OTHER              -> bad)

\* setFromAny of the same four kinds; the error of an item is the
\* ParseError that the type switch made.
listFromAny(p, v, sep, elem) ==
    LET stop(res, bad) ==
            IF bad # {}
            THEN Done([p EXCEPT !.value =
                          [i \in 1..Len(v.v) |->
                              IF i < Least(bad) THEN res[i].v
                              ELSE ZeroValue(elem)]],
                      res[Least(bad)].err)
            ELSE Done([p EXCEPT !.value = [i \in 1..Len(v.v) |-> res[i].v],
                                !.set = TRUE], Nil)
        items(res) == stop(res, { i \in 1..Len(v.v) : ~res[i].ok })
    IN  CASE v.t = "list" ->
               items([i \in 1..Len(v.v) |-> ElemFromAny(elem, v.v[i], p.k)])
          [] v.t = "slice" /\ v.elem = elem ->
               Done([p EXCEPT !.value = v.v, !.set = TRUE], Nil)
          [] v.t = "string" -> listFromString(p, v.v, sep, elem)
          [] OTHER -> Done(p, ParseError(p.k, Sprint(v), "[]" \o elem, Nil))

\* Dispatch of the Param interface on the concrete type.
setFromString(p, s, sep) ==
    CASE p.kind = "string" -> StringParam_setFromString(p, s, sep)
      [] p.kind = "int"    -> IntParam_setFromString(p, s, sep)
      [] p.kind = "bool"   -> BoolParam_setFromString(p, s, sep)
      [] p.kind = "float64" -> FloatParam_setFromString(p, s, sep)
      [] p.kind = "duration" -> DurationParam_setFromString(p, s, sep)
      [] p.kind = "[]string" -> StringListParam_setFromString(p, s, sep)
      [] p.kind = "[]int"  -> listFromString(p, s, sep, "int")
      [] p.kind = "[]bool" -> listFromString(p, s, sep, "bool")
      [] p.kind = "[]float64" -> listFromString(p, s, sep, "float64")
      [] p.kind = "[]duration" -> listFromString(p, s, sep, "duration")

setFromAny(p, v, sep) ==
    CASE p.kind = "string" -> StringParam_setFromAny(p, v, sep)
      [] p.kind = "int"    -> IntParam_setFromAny(p, v, sep)
      [] p.kind = "bool"   -> BoolParam_setFromAny(p, v, sep)
      [] p.kind = "float64" -> FloatParam_setFromAny(p, v, sep)
      [] p.kind = "duration" -> DurationParam_setFromAny(p, v, sep)
      [] p.kind = "[]string" -> StringListParam_setFromAny(p, v, sep)
      [] p.kind = "[]int"  -> listFromAny(p, v, sep, "int")
      [] p.kind = "[]bool" -> listFromAny(p, v, sep, "bool")
      [] p.kind = "[]float64" -> listFromAny(p, v, sep, "float64")
      [] p.kind = "[]duration" -> listFromAny(p, v, sep, "duration")

-----------------------------------------------------------------------------
(* Schema walker.  A struct value is [type |-> "struct", fields |-> ...];  *)
(* a field carries its cfg tag, whether it is embedded, and its type:      *)
(* "param" (with the identity id of the cell), "struct" or "other".        *)

ParamField(tag, id) ==
    [tag |-> tag, anonymous |-> FALSE, type |-> "param", id |-> id]

StructField(tag, fields) ==
    [tag |-> tag, anonymous |-> FALSE, type |-> "struct", fields |-> fields]

OtherField(tag) == [tag |-> tag, anonymous |-> FALSE, type |-> "other"]

Struct(fields) == [type |-> "struct", fields |-> fields]

\* A key builder that joins with "." whenever the prefix is not empty.
fieldKey_AlwaysJoins(prefix, tag) ==
    IF prefix # "" THEN prefix \o "." \o tag ELSE tag

\* The key built for a field of tag `tag` under `prefix`.
fieldKey(prefix, tag) ==
    IF prefix # "" /\ tag # "" THEN prefix \o "." \o tag
    ELSE IF prefix # "" THEN prefix
    ELSE tag

\* collectParams: the identities collected, and the cells with their keys
\* set.  collectFields is its loop from field i on.
RECURSIVE collectParams(_, _, _)
RECURSIVE collectFields(_, _, _, _)
\* A walker that puts the parameters of a nested struct in front of the
\* ones collected so far.
collectFields_NestedFirst(fields, i, prefix, acc) ==
    IF i > Len(fields) THEN acc
    ELSE LET field == fields[i]
             key   == fieldKey(prefix, field.tag)
         IN  IF field.tag = "" /\ ~field.anonymous
             THEN collectFields(fields, i + 1, prefix, acc)
             ELSE IF field.type = "param"
             THEN collectFields(fields, i + 1, prefix,
                      [list |-> Append(acc.list, field.id),
                       ps   |-> [acc.ps EXCEPT ![field.id].k = key]])
             ELSE IF field.type = "struct"
             THEN LET nested == collectParams(field, key, acc.ps)
                  IN  collectFields(fields, i + 1, prefix,
                          [list |-> nested.list \o acc.list, ps |-> nested.ps])
             ELSE collectFields(fields, i + 1, prefix, acc)

collectFields(fields, i, prefix, acc) ==
    IF i > Len(fields) THEN acc
    ELSE LET field == fields[i]
             key   == fieldKey(prefix, field.tag)
         IN  IF field.tag = "" /\ ~field.anonymous
             THEN collectFields(fields, i + 1, prefix, acc)
             ELSE IF field.type = "param"
             THEN collectFields(fields, i + 1, prefix,
                      [list |-> Append(acc.list, field.id),
                       ps   |-> [acc.ps EXCEPT ![field.id].k = key]])
             ELSE IF field.type = "struct"
             THEN LET nested == collectParams(field, key, acc.ps)
                  IN  collectFields(fields, i + 1, prefix,
                          [list |-> acc.list \o nested.list, ps |-> nested.ps])
             ELSE collectFields(fields, i + 1, prefix, acc)

collectParams(v, prefix, ps) ==
    IF v.type # "struct" THEN [list |-> <<>>, ps |-> ps]
    ELSE collectFields(v.fields, 1, prefix, [list |-> <<>>, ps |-> ps])

\* Loader.collectAllParams, from registration i on.
RECURSIVE collectAllFrom(_, _, _)
\* A collectAllParams that walks the first registration only.
collectAllFrom_FirstOnly(regs, i, acc) ==
    IF i > Len(regs) \/ i > 1 THEN acc
    ELSE LET one == collectParams(regs[i].cfg, regs[i].prefix, acc.ps)
         IN  [list |-> acc.list \o one.list, ps |-> one.ps]

collectAllFrom(regs, i, acc) ==
    IF i > Len(regs) THEN acc
    ELSE LET one == collectParams(regs[i].cfg, regs[i].prefix, acc.ps)
         IN  collectAllFrom(regs, i + 1,
                 [list |-> acc.list \o one.list, ps |-> one.ps])

collectAllParams(regs, ps) == collectAllFrom(regs, 1, [list |-> <<>>, ps |-> ps])

-----------------------------------------------------------------------------
(* The resolution of one parameter.                                        *)

\* The loop of lines 147-152 from source n on: the first non-nil value
\* returned by a source, in the order of the sources slice, or nil.
RECURSIVE scanSources(_, _, _, _)
scanSources(srcs, env, n, key) ==
    IF n > 3 THEN Nil
    ELSE LET v == sourceGet(srcs, env, n, key)
         IN  IF v.t # "nil" THEN v ELSE scanSources(srcs, env, n + 1, key)

\* loadParam validating only a value that a source supplied.
loadParam_ValidatesSuppliedOnly(p, srcs, env, o) ==
    LET key   == p.k
        value == scanSources(srcs, env, 1, key)
        set   == IF value.t = "nil" THEN Done(p, Nil)
                 ELSE IF value.t = "string"
                 THEN setFromString(p, value.v, o.ListSeparator)
                 ELSE setFromAny(p, value, o.ListSeparator)
        q     == set.p
        verr  == IF value.t = "nil" THEN Nil ELSE validate(q)
        rerr  == IF q.required /\ ~q.set /\ ~q.hasDefVal
                 THEN <<RequiredError(key)>> ELSE <<>>
    IN  IF set.err.t # "nil"
        THEN [p |-> q, errs |-> <<set.err>>, value |-> value]
        ELSE [p |-> q,
              errs |-> (IF verr.t # "nil" THEN <<verr>> ELSE <<>>) \o rerr,
              value |-> value]

\* loadParam with a required check that does not look at hasDefault.
loadParam_IgnoresDefault(p, srcs, env, o) ==
    LET key   == p.k
        value == scanSources(srcs, env, 1, key)
        set   == IF value.t = "nil" THEN Done(p, Nil)
                 ELSE IF value.t = "string"
                 THEN setFromString(p, value.v, o.ListSeparator)
                 ELSE setFromAny(p, value, o.ListSeparator)
        q     == set.p
        verr  == validate(q)
        rerr  == IF q.required /\ ~q.set
                 THEN <<RequiredError(key)>> ELSE <<>>
    IN  IF set.err.t # "nil"
        THEN [p |-> q, errs |-> <<set.err>>, value |-> value]
        ELSE [p |-> q,
              errs |-> (IF verr.t # "nil" THEN <<verr>> ELSE <<>>) \o rerr,
              value |-> value]

\* loadParam putting the default back when a validator rejects the value.
loadParam_RollsBack(p, srcs, env, o) ==
    LET key   == p.k
        value == scanSources(srcs, env, 1, key)
        set   == IF value.t = "nil" THEN Done(p, Nil)
                 ELSE IF value.t = "string"
                 THEN setFromString(p, value.v, o.ListSeparator)
                 ELSE setFromAny(p, value, o.ListSeparator)
        q     == set.p
        verr  == validate(q)
        rerr  == IF q.required /\ ~q.set /\ ~q.hasDefVal
                 THEN <<RequiredError(key)>> ELSE <<>>
    IN  IF set.err.t # "nil"
        THEN [p |-> q, errs |-> <<set.err>>, value |-> value]
        ELSE IF verr.t # "nil"
        THEN [p |-> [q EXCEPT !.value = q.defaultVal, !.set = FALSE],
              errs |-> <<verr>> \o rerr, value |-> value]
        ELSE [p |-> q, errs |-> rerr, value |-> value]

\* loadParam without the return of line 163.
loadParam_NoStop(p, srcs, env, o) ==
    LET key   == p.k
        value == scanSources(srcs, env, 1, key)
        set   == IF value.t = "nil" THEN Done(p, Nil)
                 ELSE IF value.t = "string"
                 THEN setFromString(p, value.v, o.ListSeparator)
                 ELSE setFromAny(p, value, o.ListSeparator)
        q     == set.p
        verr  == validate(q)
        rerr  == IF q.required /\ ~q.set /\ ~q.hasDefVal
                 THEN <<RequiredError(key)>> ELSE <<>>
    IN  [p |-> q,
         errs |-> (IF set.err.t # "nil" THEN <<set.err>> ELSE <<>>)
                    \o (IF verr.t # "nil" THEN <<verr>> ELSE <<>>) \o rerr,
         value |-> value]

\* loadParam: the parameter as it is left, the errors added to loadErr in
\* order, and the local `value`.
\* A loadParam that makes the required check before it validates.
loadParam_RequiredFirst(p, srcs, env, o) ==
    LET key   == p.k
        value == scanSources(srcs, env, 1, key)
        set   == IF value.t = "nil" THEN Done(p, Nil)
                 ELSE IF value.t = "string"
                 THEN setFromString(p, value.v, o.ListSeparator)
                 ELSE setFromAny(p, value, o.ListSeparator)
        q     == set.p
        verr  == validate(q)
        rerr  == IF q.required /\ ~q.set /\ ~q.hasDefVal
                 THEN <<RequiredError(key)>> ELSE <<>>
    IN  IF set.err.t # "nil"
        THEN [p |-> q, errs |-> <<set.err>>, value |-> value]
        ELSE [p |-> q,
              errs |-> rerr \o (IF verr.t # "nil" THEN <<verr>> ELSE <<>>),
              value |-> value]

\* The first value from source n on that the parameter can be coerced
\* from, or nil.
RECURSIVE scanCoercible(_, _, _, _, _)
scanCoercible(p, srcs, env, n, o) ==
    IF n > 3 THEN Nil
    ELSE LET v == sourceGet(srcs, env, n, p.k)
             r == IF v.t = "string" THEN setFromString(p, v.v, o.ListSeparator)
                  ELSE setFromAny(p, v, o.ListSeparator)
         IN  IF v.t # "nil" /\ r.err.t = "nil" THEN v
             ELSE scanCoercible(p, srcs, env, n + 1, o)

\* A loadParam that goes on to the next source when the value of a source
\* cannot be coerced, and reports the first value if none can.
loadParam_FallsBack(p, srcs, env, o) ==
    LET key   == p.k
        value == IF scanCoercible(p, srcs, env, 1, o).t # "nil"
                 THEN scanCoercible(p, srcs, env, 1, o)
                 ELSE scanSources(srcs, env, 1, key)
        set   == IF value.t = "nil" THEN Done(p, Nil)
                 ELSE IF value.t = "string"
                 THEN setFromString(p, value.v, o.ListSeparator)
                 ELSE setFromAny(p, value, o.ListSeparator)
        q     == set.p
        verr  == validate(q)
        rerr  == IF q.required /\ ~q.set /\ ~q.hasDefVal
                 THEN <<RequiredError(key)>> ELSE <<>>
    IN  IF set.err.t # "nil"
        THEN [p |-> q, errs |-> <<set.err>>, value |-> value]
        ELSE [p |-> q,
              errs |-> (IF verr.t # "nil" THEN <<verr>> ELSE <<>>) \o rerr,
              value |-> value]

loadParam(p, srcs, env, o) ==
    LET return(value, q, err, verr) ==
            IF err.t # "nil"
            THEN [p |-> q, errs |-> <<err>>, value |-> value]
            ELSE [p |-> q,
                  errs |-> (IF verr.t # "nil" THEN <<verr>> ELSE <<>>)
                             \o (IF q.required /\ ~q.set /\ ~q.hasDefVal
                                 THEN <<RequiredError(p.k)>> ELSE <<>>),
                  value |-> value]
        coerced(value, set) == return(value, set.p, set.err, validate(set.p))
        found(value) ==
            coerced(value,
                    IF value.t = "nil" THEN Done(p, Nil)
                    ELSE IF value.t = "string"
                    THEN setFromString(p, value.v, o.ListSeparator)
                    ELSE setFromAny(p, value, o.ListSeparator))
    IN  found(scanSources(srcs, env, 1, p.k))

-----------------------------------------------------------------------------
(* The schemas, options and environments of the model.                     *)

IntV(n) == [t |-> "int", v |-> n]

BoolV(b) == [t |-> "bool", v |-> b]

\* The float64 of m thousandths.
FloatV(m) == [t |-> "float64", v |-> m]

\* A slice of Go type []elem.
SliceV(elem, l) == [t |-> "slice", elem |-> elem, v |-> l]

ListV(l) == [t |-> "list", v |-> l]

MapV(m) == [t |-> "map", v |-> m]

\* Parameter 1 is db.host, parameter 2 is db.port.
HostBuilds ==
    << Build(Default(NewBuilder("string"), "localhost")),
       Build(Validate(Required(NewBuilder("string")), NotEmpty)),
       Build(Default(Required(NewBuilder("string")), "default-name")) >>

PortBuilds ==
    << Build(Validate(Validate(Default(NewBuilder("int"), 5432), Positive),
                      Range(1, 65535))),
       Build(Required(NewBuilder("int"))) >>

\* Load(&cfg, opts) on a struct with a nested struct, and a Loader with
\* the nested struct registered under a prefix next to an empty struct.
RegistrationSets ==
    << << [prefix |-> "",
           cfg |-> Struct(<< OtherField("host"),
                             StructField("db", << ParamField("host", 1),
                                                  ParamField("port", 2) >>) >>)] >>,
       << [prefix |-> "db",
           cfg |-> Struct(<< ParamField("host", 1), ParamField("port", 2),
                             [tag |-> "", anonymous |-> FALSE,
                              type |-> "other"] >>)],
          [prefix |-> "", cfg |-> Struct(<< >>)] >> >>

ArgLists ==
    << << >>,
       << "run", "--db.port", "not-a-number", "-v" >>,
       << "--db.host=cli.db.com", "--db.port", "8080" >>,
       << "--db.host=", "--verbose" >> >>

EnvSetups ==
    << [EnvPrefix |-> "", env |-> EmptyMap],
       [EnvPrefix |-> "", env |-> ("DB_PORT" :> "99999" @@ "db.host" :> "x")],
       [EnvPrefix |-> "TEST",
        env |-> ("TEST_DB_HOST" :> "env.db.com" @@ "TEST_DB_PORT" :> "2222")] >>

YamlBoth ==
    "db" :> MapV("host" :> Str("yaml.db.com") @@ "port" :> IntV(1111))

YamlOdd ==
    "db" :> MapV("host" :> IntV(42) @@ "port" :> ListV(<< IntV(1), IntV(2) >>))

YamlFlat == "db" :> Str("flat") @@ "db.port" :> IntV(1)

FileSetups ==
    << [ConfigFile |-> "", ConfigPaths |-> << >>, files |-> EmptyMap],
       [ConfigFile |-> "config.yaml", ConfigPaths |-> << "paths.yaml" >>,
        files |-> ("config.yaml" :> Yaml(YamlBoth)
                     @@ "paths.yaml" :> Yaml(YamlOdd))],
       [ConfigFile |-> "", ConfigPaths |-> << "a.yaml", "b.yaml", "c.yaml" >>,
        files |-> ("b.yaml" :> Yaml(YamlOdd) @@ "c.yaml" :> Yaml(YamlBoth))],
       [ConfigFile |-> "config.yaml", ConfigPaths |-> << >>,
        files |-> ("config.yaml" :> Malformed)],
       [ConfigFile |-> "", ConfigPaths |-> << "a.yaml", "b.yaml" >>,
        files |-> ("a.yaml" :> Unreadable @@ "b.yaml" :> Yaml(YamlBoth))],
       [ConfigFile |-> "config.yaml", ConfigPaths |-> << >>,
        files |-> ("config.yaml" :> Yaml(YamlFlat))] >>

ParamIds == {1, 2}

NotRun == [t |-> "notrun"]

-----------------------------------------------------------------------------
(* Loader.Load, step by step.                                              *)

Init ==
    /\ \E r \in 1..Len(RegistrationSets) : registrations = RegistrationSets[r]
    /\ \E h \in 1..Len(HostBuilds), q \in 1..Len(PortBuilds) :
          params = [i \in ParamIds |-> IF i = 1 THEN HostBuilds[h] ELSE PortBuilds[q]]
    /\ environ = EmptyMap
    /\ files = EmptyMap
    /\ opts = [ConfigFile |-> "", ConfigPaths |-> << >>, EnvPrefix |-> "",
               Args |-> << >>, ListSeparator |-> ""]
    /\ pc = "idle"
    /\ sources = [cli |-> newCLISource(<< >>), env |-> newEnvSource(""),
                  yaml |-> [data |-> EmptyMap]]
    /\ collected = << >>
    /\ idx = 1
    /\ loadErr = << >>
    /\ result = NotRun
    /\ loads = 0
    /\ before = params
    /\ rawValue = [i \in ParamIds |-> NotRun]
    /\ produced = [i \in ParamIds |-> << >>]
    /\ processed = [i \in ParamIds |-> 0]
    /\ rendered = NotRun

\* A Load that collects the parameters before it builds the file source.
LoadBegin_CollectsFirst(o, env, fs) ==
    LET sep        == IF o.ListSeparator = "" THEN "," ELSE o.ListSeparator
        configFile == IF o.ConfigFile = "" /\ Len(o.ConfigPaths) > 0
                      THEN FindConfigFile(fs, o.ConfigPaths) ELSE o.ConfigFile
        cliSrc     == newCLISource(o.Args)
        envSrc     == newEnvSource(o.EnvPrefix)
        yamlSrc    == newYAMLSource(fs, configFile)
        all        == collectAllParams(registrations, params)
    IN  /\ pc \in {"idle", "done"}
        /\ loads < MaxLoads
        /\ loads' = loads + 1
        /\ opts' = [o EXCEPT !.ListSeparator = sep]
        /\ environ' = env
        /\ files' = fs
        /\ before' = params
        /\ rawValue' = [i \in ParamIds |-> NotRun]
        /\ produced' = [i \in ParamIds |-> << >>]
        /\ processed' = [i \in ParamIds |-> 0]
        /\ loadErr' = << >>
        /\ idx' = 1
        /\ IF yamlSrc.err.t # "nil"
           THEN /\ result' = [t |-> "error", err |-> yamlSrc.err]
                /\ pc' = "done"
                /\ collected' = << >>
                /\ sources' = [cli |-> cliSrc, env |-> envSrc,
                               yaml |-> [data |-> EmptyMap]]
                /\ params' = all.ps
           ELSE /\ result' = NotRun
                /\ pc' = "loop"
                /\ sources' = [cli |-> cliSrc, env |-> envSrc,
                               yaml |-> [data |-> yamlSrc.data]]
                /\ collected' = all.list
                /\ params' = all.ps
        /\ UNCHANGED <<registrations, rendered>>

\* Load is called with options o in a process whose environment is env and
\* whose file system is fs: lines 94-112, up to the loop over params.
LoadBegin(o, env, fs) ==
    LET sep        == IF o.ListSeparator = "" THEN "," ELSE o.ListSeparator
        configFile == IF o.ConfigFile = "" /\ Len(o.ConfigPaths) > 0
                      THEN FindConfigFile(fs, o.ConfigPaths) ELSE o.ConfigFile
        cliSrc     == newCLISource(o.Args)
        envSrc     == newEnvSource(o.EnvPrefix)
        yamlSrc    == newYAMLSource(fs, configFile)
        all        == collectAllParams(registrations, params)
    IN  /\ pc \in {"idle", "done"}
        /\ loads < MaxLoads
        /\ loads' = loads + 1
        /\ opts' = [o EXCEPT !.ListSeparator = sep]
        /\ environ' = env
        /\ files' = fs
        /\ before' = params
        /\ rawValue' = [i \in ParamIds |-> NotRun]
        /\ produced' = [i \in ParamIds |-> << >>]
        /\ processed' = [i \in ParamIds |-> 0]
        /\ loadErr' = << >>
        /\ idx' = 1
        /\ IF yamlSrc.err.t # "nil"
           THEN /\ result' = [t |-> "error", err |-> yamlSrc.err]
                /\ pc' = "done"
                /\ collected' = << >>
                /\ sources' = [cli |-> cliSrc, env |-> envSrc,
                               yaml |-> [data |-> EmptyMap]]
                /\ UNCHANGED params
           ELSE /\ result' = NotRun
                /\ pc' = "loop"
                /\ sources' = [cli |-> cliSrc, env |-> envSrc,
                               yaml |-> [data |-> yamlSrc.data]]
                /\ collected' = all.list
                /\ params' = all.ps
        /\ UNCHANGED <<registrations, rendered>>

Load ==
    \E a \in 1..Len(ArgLists), e \in 1..Len(EnvSetups), f \in 1..Len(FileSetups) :
        LoadBegin([ConfigFile |-> FileSetups[f].ConfigFile,
                   ConfigPaths |-> FileSetups[f].ConfigPaths,
                   EnvPrefix |-> EnvSetups[e].EnvPrefix,
                   Args |-> ArgLists[a],
                   ListSeparator |-> ""],
                  EnvSetups[e].env, FileSetups[f].files)

\* One iteration of the loop of lines 115-117.
LoadParamStep ==
    /\ pc = "loop"
    /\ idx <= Len(collected)
    /\ LET step(id, r) ==
               /\ params' = [params EXCEPT ![id] = r.p]
               /\ loadErr' = loadErr \o r.errs
               /\ rawValue' = [rawValue EXCEPT ![id] = r.value]
               /\ produced' = [produced EXCEPT ![id] = @ \o r.errs]
               /\ processed' = [processed EXCEPT ![id] = @ + 1]
       IN  step(collected[idx],
                loadParam(params[collected[idx]], sources, environ, opts))
    /\ idx' = idx + 1
    /\ UNCHANGED <<rendered, registrations, environ, files, opts, pc, sources,
                   collected, result, loads, before>>

\* A loop that breaks at the first parameter that added an error.
LoadReturn_FailFast ==
    /\ pc = "loop"
    /\ idx > Len(collected) \/ Len(loadErr) > 0
    /\ result' = IF Len(loadErr) > 0
                 THEN [t |-> "LoadError", Errors |-> loadErr] ELSE Nil
    /\ pc' = "done"
    /\ UNCHANGED <<rendered, registrations, params, environ, files, opts, sources,
                   collected, idx, loadErr, loads, before, rawValue,
                   produced, processed>>

\* A return of loadErr without the HasErrors test.
LoadReturn_AlwaysLoadError ==
    /\ pc = "loop"
    /\ idx > Len(collected)
    /\ result' = [t |-> "LoadError", Errors |-> loadErr]
    /\ pc' = "done"
    /\ UNCHANGED <<rendered, registrations, params, environ, files, opts, sources,
                   collected, idx, loadErr, loads, before, rawValue,
                   produced, processed>>

\* The end of the loop and the return of lines 119-122.
LoadReturn ==
    /\ pc = "loop"
    /\ idx > Len(collected)
    /\ result' = IF Len(loadErr) > 0
                 THEN [t |-> "LoadError", Errors |-> loadErr] ELSE Nil
    /\ pc' = "done"
    /\ UNCHANGED <<rendered, registrations, params, environ, files, opts, sources,
                   collected, idx, loadErr, loads, before, rawValue,
                   produced, processed>>

Next == Load \/ LoadParamStep \/ LoadReturn

Spec == Init /\ [][Next]_vars

-----------------------------------------------------------------------------
(* Properties.                                                             *)

\* Equality of two values of type any.
SameAny(a, b) == a.t = b.t /\ (a.t = "nil" \/ a.v = b.v)

\* The default of a parameter, or the zero value if it has none.
DefaultOrZero(p) == IF p.hasDefVal THEN p.defaultVal ELSE ZeroValue(p.kind)

\* What the coercion entry point chosen by loadParam does with raw on p.
Coerce(p, raw) ==
    IF raw.t = "string" THEN setFromString(p, raw.v, opts.ListSeparator)
    ELSE setFromAny(p, raw, opts.ListSeparator)

\* The errors of a sequence that carry the key k.
RECURSIVE ErrorsFor(_, _)
ErrorsFor(errs, k) ==
    IF errs = << >> THEN << >>
    ELSE (IF errs[1].Key = k THEN << errs[1] >> ELSE << >>)
            \o ErrorsFor(Tail(errs), k)

\* The concatenation of produced over the identities of list, in order.
RECURSIVE ProducedAlong(_)
ProducedAlong(list) ==
    IF list = << >> THEN << >>
    ELSE produced[list[1]] \o ProducedAlong(Tail(list))

Returned == pc = "done" /\ result.t \in {"nil", "LoadError"}

\* What cliSrc, envSrc and yamlSrc hold for the key of parameter i.
InCLI(i) == cliGet(sources.cli, params[i].k)
InEnv(i) == envGet(sources.env, environ, params[i].k)
InFile(i) == yamlGet(sources.yaml, params[i].k)

NoSourceHas(i) ==
    InCLI(i).t = "nil" /\ InEnv(i).t = "nil" /\ InFile(i).t = "nil"

\* C1: in a Load on a freshly built schema the raw value handed to the
\* coercion is the CLI value if the CLI adapter has the key, else the
\* environment value, else the file value; if no source has the key the
\* parameter keeps its default (or zero value) and isSet stays false.
Inv_C1_SourcePriority ==
    \A i \in ParamIds :
        (loads = 1 /\ processed[i] = 1) =>
            /\ SameAny(rawValue[i],
                       IF InCLI(i).t # "nil" THEN InCLI(i)
                       ELSE IF InEnv(i).t # "nil" THEN InEnv(i)
                       ELSE InFile(i))
            /\ NoSourceHas(i) =>
                  /\ params[i].value = DefaultOrZero(before[i])
                  /\ ~params[i].set

\* The environment and the file both have db.port, the CLI does not, and
\* the environment's text was the one coerced.
Wit_C1_EnvBeatsFile ==
    /\ Returned /\ loads = 1
    /\ InCLI(2).t = "nil"
    /\ InEnv(2) = Str("2222")
    /\ InFile(2).t = "int"
    /\ SameAny(rawValue[2], Str("2222"))
    /\ params[2].value = 2222

\* C2: every collected parameter goes through the loop body exactly once,
\* whatever errors the others produced, and the LoadError returned holds
\* every error any parameter produced, in order.
Inv_C2_FailTogether ==
    Returned =>
        /\ \A n \in 1..Len(collected) : processed[collected[n]] = 1
        /\ \A i \in ParamIds : \E n \in 1..Len(collected) : collected[n] = i
        /\ loadErr = ProducedAlong(collected)
        /\ ProducedAlong(collected) # << >> =>
              result = [t |-> "LoadError", Errors |-> ProducedAlong(collected)]

\* Both parameters failed and both failures are in the LoadError.
Wit_C2_BothFailed ==
    /\ Returned
    /\ produced[1] # << >> /\ produced[2] # << >>
    /\ result.t = "LoadError"
    /\ Len(result.Errors) = Len(produced[1]) + Len(produced[2])

\* C3: Load returns nil exactly when the file adapter was constructed and
\* no parameter produced an error; a LoadError returned is never empty.
Inv_C3_NilIffNoErrors ==
    pc = "done" =>
        /\ result.t = "nil" <=>
              (result.t # "error" /\ \A i \in ParamIds : produced[i] = << >>)
        /\ result.t = "LoadError" => Len(result.Errors) >= 1

Wit_C3_NilAfterCleanLoad ==
    /\ pc = "done" /\ result.t = "nil"
    /\ \A i \in ParamIds : processed[i] = 1 /\ produced[i] = << >>
    /\ params[2].set

\* C4: when the winning raw value cannot be coerced, the parameter adds
\* exactly one ParseError for its key and nothing else (no ValidationError,
\* no RequiredError), even if it is required and has no default.
Inv_C4_ParseErrorStops ==
    \A i \in ParamIds :
        (processed[i] = 1 /\ rawValue[i].t # "nil"
           /\ Coerce(before[i], rawValue[i]).err.t # "nil") =>
            /\ Len(produced[i]) = 1
            /\ produced[i][1].t = "ParseError"
            /\ produced[i][1].Key = params[i].k
            /\ Returned => ErrorsFor(result.Errors, params[i].k) = produced[i]

\* db.port is required, has no default and failing validation would be
\* possible; "not-a-number" from the CLI gives the ParseError alone.
Wit_C4_RequiredUnparseable ==
    /\ Returned
    /\ params[2].required /\ ~params[2].hasDefVal
    /\ SameAny(rawValue[2], Str("not-a-number"))
    /\ ErrorsFor(result.Errors, "db.port")
         = << ParseError("db.port", "not-a-number", "int",
                         [Func |-> "Atoi", Num |-> "not-a-number",
                          Err |-> "invalid syntax"]) >>

\* The number of errors of type ty in a sequence of errors.
RECURSIVE CountOf(_, _)
CountOf(errs, ty) ==
    IF errs = << >> THEN 0
    ELSE (IF errs[1].t = ty THEN 1 ELSE 0) + CountOf(Tail(errs), ty)

\* Parameter i as it entered loadParam: as before the Load, with its key.
Entered(i) == [before[i] EXCEPT !.k = params[i].k]

\* C5 as stated: a required parameter without default that no source
\* supplies adds exactly one RequiredError and no other error, whatever
\* its validators.
Cex_C5_RequiredErrorAlone ==
    \A i \in ParamIds :
        (processed[i] = 1 /\ before[i].required /\ ~before[i].hasDefVal
           /\ NoSourceHas(i)) =>
            produced[i] = << RequiredError(params[i].k) >>

\* C5, amended: a required parameter without default that is unset when
\* the Load starts and that no source supplies adds exactly one
\* RequiredError and no ParseError; it adds one ValidationError as well,
\* before the RequiredError, exactly when its validators reject its value.
Inv_C5_RequiredErrorAndValidation ==
    \A i \in ParamIds :
        (processed[i] = 1 /\ before[i].required /\ ~before[i].hasDefVal
           /\ ~before[i].set /\ NoSourceHas(i)) =>
            /\ CountOf(produced[i], "RequiredError") = 1
            /\ CountOf(produced[i], "ParseError") = 0
            /\ produced[i][Len(produced[i])] = RequiredError(params[i].k)
            /\ IF \E n \in 1..Len(before[i].validators) :
                     Call(before[i].validators[n], before[i].value).t # "nil"
               THEN /\ Len(produced[i]) = 2
                    /\ produced[i][1].t = "ValidationError"
                    /\ produced[i][1].Key = params[i].k
               ELSE Len(produced[i]) = 1

\* db.host is Required with NotEmpty, nothing supplies it: both errors.
Wit_C5_NotEmptyAndRequired ==
    /\ Returned
    /\ ~before[1].set /\ NoSourceHas(1)
    /\ produced[1] = << ValidationError("db.host", Str(""),
                            "validation error: string must not be empty"),
                        RequiredError("db.host") >>

\* C6: a parameter with a configured default never adds a RequiredError,
\* required or not, supplied or not.
Inv_C6_DefaultNeverRequiredError ==
    \A i \in ParamIds :
        params[i].hasDefVal =>
            /\ CountOf(produced[i], "RequiredError") = 0
            /\ Returned /\ result.t = "LoadError" =>
                  CountOf(ErrorsFor(result.Errors, params[i].k), "RequiredError") = 0

\* db.host is required with a default and nothing supplies it.
Wit_C6_RequiredWithDefault ==
    /\ Returned
    /\ params[1].required /\ params[1].hasDefVal
    /\ processed[1] = 1 /\ NoSourceHas(1) /\ ~params[1].set
    /\ params[1].value = "default-name"
    /\ produced[1] = << >>

\* C7: a built parameter has isSet false before any Load; after the first
\* Load isSet is true exactly when a source supplied a value for the key
\* and that value was coerced successfully.
Inv_C7_IsSetMeansSupplied ==
    \A i \in ParamIds :
        /\ loads = 0 => ~params[i].set
        /\ (loads = 1 /\ processed[i] = 0) => ~params[i].set
        /\ (loads = 1 /\ processed[i] = 1) =>
              (params[i].set <=>
                  /\ ~NoSourceHas(i)
                  /\ CountOf(produced[i], "ParseError") = 0)

\* Only the file supplies the two keys: db.host (the int 42) is coerced
\* and set; db.port (a list) is not coerced, so it stays unset.
Wit_C7_SetOnlyWhenCoerced ==
    /\ Returned /\ loads = 1
    /\ InCLI(1).t = "nil" /\ InEnv(1).t = "nil" /\ InFile(1) = IntV(42)
    /\ params[1].set /\ params[1].value = "42"
    /\ InCLI(2).t = "nil" /\ InEnv(2).t = "nil" /\ InFile(2).t = "list"
    /\ ~params[2].set /\ params[2].value = DefaultOrZero(before[2])

\* C8: when the coercion succeeds and a validator rejects the value, the
\* parameter keeps the coerced value with isSet true, adds one
\* ValidationError with its key and that value, and every other parameter
\* ends as its own resolution leaves it.
Inv_C8_RejectedValueKept ==
    \A i \in ParamIds :
        (processed[i] = 1 /\ rawValue[i].t # "nil"
           /\ Coerce(Entered(i), rawValue[i]).err.t = "nil"
           /\ validate(Coerce(Entered(i), rawValue[i]).p).t # "nil") =>
            /\ params[i].value = Coerce(Entered(i), rawValue[i]).p.value
            /\ params[i].set
            /\ Len(produced[i]) = 1
            /\ produced[i][1].t = "ValidationError"
            /\ produced[i][1].Key = params[i].k
            /\ produced[i][1].Value = [t |-> params[i].kind, v |-> params[i].value]
            /\ Returned =>
                  \A j \in ParamIds \ {i} :
                      /\ processed[j] = 1
                      /\ params[j] = loadParam(Entered(j), sources, environ, opts).p
                      /\ produced[j] = loadParam(Entered(j), sources, environ, opts).errs

\* DB_PORT=99999 with Range(1, 65535): the ValidationError of db.port and
\* db.host left at "localhost", unset.
Wit_C8_PortOutOfRange ==
    /\ Returned /\ loads = 1
    /\ opts.EnvPrefix = "" /\ "DB_PORT" \in DOMAIN environ
    /\ SameAny(rawValue[2], Str("99999"))
    /\ params[2].value = 99999 /\ params[2].set
    /\ result = [t |-> "LoadError",
                 Errors |-> << ValidationError("db.port", IntV(99999),
                     "validation error: value 99999 is not in range [1, 65535]") >>]
    /\ params[1].value = "localhost" /\ ~params[1].set

\* C9 as stated: after a Load in which no source supplies the key, the
\* parameter holds its default (or zero value) and isSet is false,
\* whatever earlier Loads stored.
Cex_C9_ReloadResets ==
    \A i \in ParamIds :
        (Returned /\ processed[i] = 1 /\ NoSourceHas(i)) =>
            /\ params[i].value = DefaultOrZero(params[i])
            /\ ~params[i].set

\* The file selected by lines 99-102.
SelectedFile ==
    IF opts.ConfigFile = "" /\ Len(opts.ConfigPaths) > 0
    THEN FindConfigFile(files, opts.ConfigPaths) ELSE opts.ConfigFile

\* C10: when the selected file exists and cannot be read or parsed, Load
\* returns that error itself, no LoadError, before it touches a parameter:
\* values, isSet and keys are as before the Load and no error was added.
Inv_C10_FileErrorIsFatal ==
    (pc = "done" /\ FileAt(files, SelectedFile).t \in {"unreadable", "malformed"}) =>
        /\ result.t = "error"
        /\ result.err.path = SelectedFile
        /\ params = before
        /\ loadErr = << >>
        /\ \A i \in ParamIds : processed[i] = 0 /\ produced[i] = << >>

\* The first Load fails on a malformed file: the keys are still unassigned.
Wit_C10_MalformedFirstLoad ==
    /\ pc = "done" /\ loads = 1
    /\ FileAt(files, SelectedFile).t = "malformed"
    /\ result.t = "error"
    /\ \A i \in ParamIds : params[i].k = "" /\ ~params[i].set

-----------------------------------------------------------------------------
(* One Load on a freshly built schema, over a wider range of schemas,      *)
(* argument lists, environments and files.                                 *)

\* Next to the two layouts of RegistrationSets: a flat struct, whose keys
\* have one segment, and a struct registered under "app" whose keys have
\* three, one of them through a tag that itself contains a dot.
WideRegistrationSets ==
    RegistrationSets \o
    << << [prefix |-> "",
           cfg |-> Struct(<< ParamField("host", 1), ParamField("port", 2) >>)] >>,
       << [prefix |-> "app",
           cfg |-> Struct(<< StructField("db", << ParamField("host", 1) >>),
                             ParamField("db.port", 2) >>)] >>,
       << [prefix |-> "db", cfg |-> Struct(<< ParamField("port", 2) >>)],
          [prefix |-> "db", cfg |-> Struct(<< ParamField("host", 1) >>)] >> >>

WideArgLists ==
    ArgLists \o
    << << "--host", "--port=12", "--app.db.host", "h", "--app.db.port=x=y" >>,
       << "--db.port", "7", "--DB_PORT=8", "--db_port=9" >>,
       << "--db.port=-5", "--db.host=" >> >>

WideEnvSetups ==
    EnvSetups \o
    << [EnvPrefix |-> "TEST",
        env |-> ("TEST_DB_HOST" :> "" @@ "DB_PORT" :> "7" @@ "TEST_HOST" :> "th"
                   @@ "TEST_APP_DB_PORT" :> "31" @@ "TESTDB_PORT" :> "32")],
       [EnvPrefix |-> "",
        env |-> ("DB_HOST" :> "" @@ "APP_DB_HOST" :> "" @@ "PORT" :> ""
                   @@ "db_port" :> "5" @@ "TEST_DB_PORT" :> "6"
                   @@ "DB.PORT" :> "4")] >>

YamlDeep ==
    "app" :> MapV("db" :> MapV("host" :> Str("deep") @@ "port" :> IntV(3)))
      @@ "host" :> Str("top")
      @@ "port" :> MapV("x" :> IntV(1))
      @@ "db" :> MapV("host" :> MapV("deep" :> IntV(1)) @@ "port" :> IntV(2))

\* Scalars where a mapping is expected, a null leaf, and keys that hold a
\* dotted path as one name.
YamlShallow ==
    "app" :> MapV("db" :> IntV(3))
      @@ "db" :> MapV("host" :> Nil)
      @@ "db.port" :> IntV(1)
      @@ "app.db.host" :> Str("dotted")
      @@ "port" :> IntV(9)

WideFileSetups ==
    FileSetups \o
    << [ConfigFile |-> "nowhere.yaml", ConfigPaths |-> << "b.yaml" >>,
        files |-> ("b.yaml" :> Yaml(YamlBoth))],
       [ConfigFile |-> "", ConfigPaths |-> << "a.yaml", "b.yaml" >>,
        files |-> EmptyMap],
       [ConfigFile |-> "deep.yaml", ConfigPaths |-> << >>,
        files |-> ("deep.yaml" :> Yaml(YamlDeep))],
       [ConfigFile |-> "", ConfigPaths |-> << "shallow.yaml" >>,
        files |-> ("shallow.yaml" :> Yaml(YamlShallow))] >>

\* Next to PortBuilds, a port whose default its own validator rejects.
WidePortBuilds ==
    PortBuilds \o << Build(Validate(Default(NewBuilder("int"), 0), Positive)) >>

InitWide ==
    /\ \E r \in 1..Len(WideRegistrationSets) :
          registrations = WideRegistrationSets[r]
    /\ \E h \in 1..Len(HostBuilds), q \in 1..Len(WidePortBuilds) :
          params = [i \in ParamIds |-> IF i = 1 THEN HostBuilds[h] ELSE WidePortBuilds[q]]
    /\ environ = EmptyMap
    /\ files = EmptyMap
    /\ opts = [ConfigFile |-> "", ConfigPaths |-> << >>, EnvPrefix |-> "",
               Args |-> << >>, ListSeparator |-> ""]
    /\ pc = "idle"
    /\ sources = [cli |-> newCLISource(<< >>), env |-> newEnvSource(""),
                  yaml |-> [data |-> EmptyMap]]
    /\ collected = << >>
    /\ idx = 1
    /\ loadErr = << >>
    /\ result = NotRun
    /\ loads = 0
    /\ before = params
    /\ rawValue = [i \in ParamIds |-> NotRun]
    /\ produced = [i \in ParamIds |-> << >>]
    /\ processed = [i \in ParamIds |-> 0]
    /\ rendered = NotRun

\* The one Load call of a program that loads its configuration at startup.
LoadOnce ==
    /\ loads = 0
    /\ \E a \in 1..Len(WideArgLists), e \in 1..Len(WideEnvSetups),
          f \in 1..Len(WideFileSetups) :
          LoadBegin([ConfigFile |-> WideFileSetups[f].ConfigFile,
                     ConfigPaths |-> WideFileSetups[f].ConfigPaths,
                     EnvPrefix |-> WideEnvSetups[e].EnvPrefix,
                     Args |-> WideArgLists[a],
                     ListSeparator |-> ""],
                    WideEnvSetups[e].env, WideFileSetups[f].files)

NextOnce == LoadOnce \/ LoadParamStep \/ LoadReturn

SpecOnce == InitWide /\ [][NextOnce]_vars

\* Keys that no schema of the model declares, next to those it does.
ProbeKeys ==
    { "", "db", "db.host", "db.port", "host", "port", "app", "app.db",
      "app.db.host", "app.db.port", "x" }

\* C11: when the selected file path is empty or names a file that does not
\* exist, the file adapter holds an empty tree, every file lookup is absent,
\* Load does not return a file error, and each parameter resolves from the
\* CLI, else the environment, else keeps its default (or zero value) with
\* isSet false.
Inv_C11_MissingFileIsNoError ==
    (loads = 1 /\ (SelectedFile = "" \/ FileAt(files, SelectedFile).t = "missing")) =>
        /\ sources.yaml.data = EmptyMap
        /\ \A k \in ProbeKeys : yamlGet(sources.yaml, k).t = "nil"
        /\ result.t # "error"
        /\ pc = "loop" \/ Returned
        /\ \A i \in ParamIds :
              processed[i] = 1 =>
                 /\ SameAny(rawValue[i],
                            IF InCLI(i).t # "nil" THEN InCLI(i) ELSE InEnv(i))
                 /\ (InCLI(i).t = "nil" /\ InEnv(i).t = "nil") =>
                       /\ params[i].value = DefaultOrZero(before[i])
                       /\ ~params[i].set
                       /\ CountOf(produced[i], "ParseError") = 0

\* ConfigFile names a file that does not exist while a file of ConfigPaths
\* does: Load returns nil and db.host is left at "localhost".
Wit_C11_NamedFileDoesNotExist ==
    /\ Returned /\ result.t = "nil"
    /\ opts.ConfigFile = "nowhere.yaml"
    /\ FileAt(files, "nowhere.yaml").t = "missing"
    /\ FileAt(files, "b.yaml").t = "yaml"
    /\ params[1].k = "db.host" /\ NoSourceHas(1)
    /\ params[1].value = "localhost" /\ ~params[1].set

-----------------------------------------------------------------------------
(* newCLISource on its own: the argument list is any list of at most       *)
(* MaxArgs tokens, and the one step builds the adapter from it.            *)

\* Length of the argument lists.
MaxArgs == 3

\* Long flags with and without "=", with an empty key, an empty value and
\* a value holding "=" and a space; a short flag, a subcommand and a
\* positional word holding "=".
CliTokens ==
    { "--a", "--b", "--a=1", "--b=x=y z", "--a=", "--", "-v", "run", "k=v" }

ArgsUpTo(n) == UNION { [1..k -> CliTokens] : k \in 0..n }

CliInit ==
    /\ registrations = RegistrationSets[1]
    /\ params = [i \in ParamIds |-> IF i = 1 THEN HostBuilds[1] ELSE PortBuilds[1]]
    /\ environ = EmptyMap
    /\ files = EmptyMap
    /\ \E args \in ArgsUpTo(MaxArgs) :
          opts = [ConfigFile |-> "", ConfigPaths |-> << >>, EnvPrefix |-> "",
                  Args |-> args, ListSeparator |-> ""]
    /\ pc = "idle"
    /\ sources = [cli |-> [values |-> EmptyMap], env |-> newEnvSource(""),
                  yaml |-> [data |-> EmptyMap]]
    /\ collected = << >>
    /\ idx = 1
    /\ loadErr = << >>
    /\ result = NotRun
    /\ loads = 0
    /\ before = params
    /\ rawValue = [i \in ParamIds |-> NotRun]
    /\ produced = [i \in ParamIds |-> << >>]
    /\ processed = [i \in ParamIds |-> 0]
    /\ rendered = NotRun

\* cliSrc := newCLISource(opts.Args), line 105.
BuildCLISource ==
    /\ pc = "idle"
    /\ sources' = [sources EXCEPT !.cli = newCLISource(opts.Args)]
    /\ pc' = "built"
    /\ UNCHANGED <<rendered, registrations, params, environ, files, opts, collected,
                   idx, loadErr, result, loads, before, rawValue, produced,
                   processed>>

CliNext == BuildCLISource

CliSpec == CliInit /\ [][CliNext]_vars

\* What the argument list says, token by token.
IsLong(tok) == Len(tok) >= 2 /\ SubSeq(tok, 1, 2) = "--"

HasEq(tok) == \E j \in 3..Len(tok) : Char(tok, j) = "="

FirstEq(tok) ==
    CHOOSE j \in 3..Len(tok) :
        Char(tok, j) = "=" /\ \A h \in 3..(j - 1) : Char(tok, h) # "="

IsBare(tok) == IsLong(tok) /\ ~HasEq(tok)

KeyAt(args, i) ==
    IF HasEq(args[i]) THEN SubSeq(args[i], 3, FirstEq(args[i]) - 1)
    ELSE SubSeq(args[i], 3, Len(args[i]))

\* The positions of args that hold a long flag of key k, and the last one.
FlagsOf(args, k) ==
    { i \in 1..Len(args) : IsLong(args[i]) /\ KeyAt(args, i) = k }

IsLastOf(args, i) ==
    \A j \in FlagsOf(args, KeyAt(args, i)) : j <= i

InsertAt(args, i, tok) ==
    SubSeq(args, 1, i) \o << tok >> \o SubSeq(args, i + 1, Len(args))

RemoveAt(args, i) == SubSeq(args, 1, i - 1) \o SubSeq(args, i + 1, Len(args))

OtherTokens == { tok \in CliTokens : ~IsLong(tok) }

CliBuilt == pc = "built"

\* C12 as stated: inserting a token that is not a long flag anywhere in the
\* argument list, or removing one from anywhere, leaves the value of every
\* key as it is.
Cex_C12_OtherTokensNeverMatter ==
    CliBuilt =>
        /\ \A i \in 0..Len(opts.Args), tok \in OtherTokens :
              newCLISource(InsertAt(opts.Args, i, tok)).values = sources.cli.values
        /\ \A i \in 1..Len(opts.Args) :
              ~IsLong(opts.Args[i]) =>
                  newCLISource(RemoveAt(opts.Args, i)).values = sources.cli.values

\* C12, amended: a token that is not a long flag is never read as a key,
\* and inserting or removing one leaves the value of every key as it is
\* unless the token comes right after a long flag that has no "=".
Inv_C12_OtherTokensIgnoredUnlessValue ==
    CliBuilt =>
        /\ DOMAIN sources.cli.values
              = { KeyAt(opts.Args, i) :
                    i \in { j \in 1..Len(opts.Args) : IsLong(opts.Args[j]) } }
        /\ \A i \in 0..Len(opts.Args), tok \in OtherTokens :
              (i = 0 \/ ~IsBare(opts.Args[i])) =>
                  newCLISource(InsertAt(opts.Args, i, tok)).values
                     = sources.cli.values
        /\ \A i \in 1..Len(opts.Args) :
              (~IsLong(opts.Args[i]) /\ (i = 1 \/ ~IsBare(opts.Args[i - 1]))) =>
                  newCLISource(RemoveAt(opts.Args, i)).values = sources.cli.values

\* A subcommand before and a short flag after --a=1: only a is read.
Wit_C12_SubcommandAndShortFlag ==
    /\ CliBuilt
    /\ opts.Args = << "run", "--a=1", "-v" >>
    /\ sources.cli.values = ("a" :> "1")

\* C13: a long flag without "=" that is the last flag of its key gets the
\* next token as its value if there is one and it does not start with
\* "--", and "true" otherwise; a next token that starts with "--" is read
\* as a flag itself.
Inv_C13_BareFlagValue ==
    CliBuilt =>
        \A i \in 1..Len(opts.Args) :
            (IsBare(opts.Args[i]) /\ IsLastOf(opts.Args, i)) =>
                /\ KeyAt(opts.Args, i) \in DOMAIN sources.cli.values
                /\ sources.cli.values[KeyAt(opts.Args, i)]
                      = IF i < Len(opts.Args) /\ ~IsLong(opts.Args[i + 1])
                        THEN opts.Args[i + 1] ELSE "true"
                /\ (i < Len(opts.Args) /\ IsLong(opts.Args[i + 1])) =>
                      KeyAt(opts.Args, i + 1) \in DOMAIN sources.cli.values

\* --a is followed by a long flag and --b by a word.
Wit_C13_BooleanThenValue ==
    /\ CliBuilt
    /\ opts.Args = << "--a", "--b", "run" >>
    /\ sources.cli.values = ("a" :> "true" @@ "b" :> "run")

\* C14: a long flag with "=" that is the last flag of its key has as key
\* the text between "--" and the first "=" and as value all the text after
\* that "="; the token after it is not its value, and is read as a flag if
\* it starts with "--".
Inv_C14_SplitAtFirstEq ==
    CliBuilt =>
        \A i \in 1..Len(opts.Args) :
            (IsLong(opts.Args[i]) /\ HasEq(opts.Args[i])
               /\ IsLastOf(opts.Args, i)) =>
                LET tok == opts.Args[i]
                    key == SubSeq(tok, 3, FirstEq(tok) - 1)
                IN  /\ key \in DOMAIN sources.cli.values
                    /\ "--" \o key \o "=" \o sources.cli.values[key] = tok
                    /\ (i < Len(opts.Args) /\ IsLong(opts.Args[i + 1])) =>
                          KeyAt(opts.Args, i + 1) \in DOMAIN sources.cli.values

\* The value holds "=" and a space, and the word after it is not taken.
Wit_C14_ValueWithEquals ==
    /\ CliBuilt
    /\ opts.Args = << "--b=x=y z", "run", "--a=" >>
    /\ sources.cli.values = ("b" :> "x=y z" @@ "a" :> "")

\* The value the argument list gives at the flag of position i.
ValueAt(args, i) ==
    IF HasEq(args[i]) THEN SubSeq(args[i], FirstEq(args[i]) + 1, Len(args[i]))
    ELSE IF i < Len(args) /\ ~IsLong(args[i + 1]) THEN args[i + 1]
    ELSE "true"

\* C15: for a key that has more than one flag in the argument list, the
\* lookup returns the value of the last of them.
Inv_C15_LastOccurrenceWins ==
    CliBuilt =>
        \A i \in 1..Len(opts.Args) :
            (IsLong(opts.Args[i]) /\ IsLastOf(opts.Args, i)
               /\ Cardinality(FlagsOf(opts.Args, KeyAt(opts.Args, i))) >= 2) =>
                cliGet(sources.cli, KeyAt(opts.Args, i))
                    = Str(ValueAt(opts.Args, i))

\* Key a in the three forms; the last one, with the empty value, wins.
Wit_C15_ThreeForms ==
    /\ CliBuilt
    /\ opts.Args = << "--a", "--a=1", "--a=" >>
    /\ cliGet(sources.cli, "a") = Str("")

\* The environment variable of each key of the model's schemas.
VariableOf ==
    "db.host" :> "DB_HOST" @@ "db.port" :> "DB_PORT" @@ "host" :> "HOST"
      @@ "port" :> "PORT" @@ "app.db.host" :> "APP_DB_HOST"
      @@ "app.db.port" :> "APP_DB_PORT"

PrefixedVariableOf(k) ==
    IF opts.EnvPrefix = "" THEN VariableOf[k]
    ELSE opts.EnvPrefix \o "_" \o VariableOf[k]

\* C16: the environment adapter reads the variable named by the key in
\* upper case with "_" for ".", after PREFIX_ if a prefix is configured,
\* and no other; if that variable is unset the lookup is absent and, the
\* CLI not having the key, the file value is the one resolved; if it is set
\* to "" the lookup is "" and, the CLI not having the key, "" is the value
\* coerced, whatever the file and the default hold.
Inv_C16_EnvVariableName ==
    \A i \in ParamIds :
        processed[i] = 1 =>
            LET name == PrefixedVariableOf(params[i].k)
            IN  /\ InEnv(i) = IF name \in DOMAIN environ
                              THEN Str(environ[name]) ELSE Nil
                /\ (name \notin DOMAIN environ /\ InCLI(i).t = "nil") =>
                      SameAny(rawValue[i], InFile(i))
                /\ (name \in DOMAIN environ /\ environ[name] = ""
                       /\ InCLI(i).t = "nil") =>
                      /\ SameAny(rawValue[i], Str(""))
                      /\ params[i].kind = "string" =>
                            params[i].value = "" /\ params[i].set
                      /\ params[i].kind = "int" =>
                            /\ Len(produced[i]) = 1
                            /\ produced[i][1].t = "ParseError"
                            /\ produced[i][1].Value = ""

\* TEST_DB_HOST is set to "" while the file has db.host and the default is
\* "localhost": db.host is "" and set.  DB_PORT, without the prefix, is not
\* read: db.port comes from the file.
Wit_C16_EmptyVariableWins ==
    /\ Returned
    /\ opts.EnvPrefix = "TEST"
    /\ "TEST_DB_HOST" \in DOMAIN environ /\ environ["TEST_DB_HOST"] = ""
    /\ params[1].k = "db.host" /\ InCLI(1).t = "nil"
    /\ InFile(1) = Str("yaml.db.com")
    /\ params[1].defaultVal = "localhost"
    /\ params[1].value = "" /\ params[1].set
    /\ "DB_PORT" \in DOMAIN environ /\ InCLI(2).t = "nil"
    /\ params[2].value = 1111

\* The segments of each key of the model's schemas.
SegmentsOf ==
    "db.host" :> << "db", "host" >> @@ "db.port" :> << "db", "port" >>
      @@ "host" :> << "host" >> @@ "port" :> << "port" >>
      @@ "app.db.host" :> << "app", "db", "host" >>
      @@ "app.db.port" :> << "app", "db", "port" >>

\* The member named seg of a node, if the node is a mapping that has it.
HasMember(node, seg) == node.t = "map" /\ seg \in DOMAIN node.v

\* The node under the segments segs (at most three) of the tree data, one
\* mapping level per segment, or nil.
NodeUnder(data, segs) ==
    LET root == [t |-> "map", v |-> data]
    IN  IF ~HasMember(root, segs[1]) THEN Nil
        ELSE IF Len(segs) = 1 THEN root.v[segs[1]]
        ELSE IF ~HasMember(root.v[segs[1]], segs[2]) THEN Nil
        ELSE IF Len(segs) = 2 THEN root.v[segs[1]].v[segs[2]]
        ELSE IF ~HasMember(root.v[segs[1]].v[segs[2]], segs[3]) THEN Nil
        ELSE root.v[segs[1]].v[segs[2]].v[segs[3]]

\* C17: the file adapter returns for a key the node found by descending
\* one mapping level per "."-separated segment of the key, and absent if a
\* segment is missing at its level or a node before the last segment is
\* not a mapping; with the key in neither the CLI nor the environment that
\* node is the value resolved.
Inv_C17_FileTreeWalk ==
    \A i \in ParamIds :
        processed[i] = 1 =>
            /\ SameAny(InFile(i),
                       NodeUnder(sources.yaml.data, SegmentsOf[params[i].k]))
            /\ (InCLI(i).t = "nil" /\ InEnv(i).t = "nil") =>
                  SameAny(rawValue[i],
                          NodeUnder(sources.yaml.data, SegmentsOf[params[i].k]))

\* Three levels down for app.db.host and app.db.port.
Wit_C17_ThreeLevels ==
    /\ Returned
    /\ sources.yaml.data = YamlDeep
    /\ params[1].k = "app.db.host" /\ params[2].k = "app.db.port"
    /\ NoSourceHas(1) = FALSE /\ InCLI(1).t = "nil" /\ InEnv(1).t = "nil"
    /\ InCLI(2).t = "nil" /\ InEnv(2).t = "nil"
    /\ params[1].value = "deep" /\ params[1].set
    /\ params[2].value = 3 /\ params[2].set

\* app.db is the scalar 3, so app.db.host is absent, although the file has
\* a top-level entry named "app.db.host".
Wit_C17_ScalarMidPath ==
    /\ Returned
    /\ sources.yaml.data = YamlShallow
    /\ params[1].k = "app.db.host"
    /\ "app.db.host" \in DOMAIN sources.yaml.data
    /\ InFile(1).t = "nil"
    /\ InCLI(1).t = "nil" /\ InEnv(1).t = "nil" /\ ~params[1].set

-----------------------------------------------------------------------------
(* The schema walker on its own, over a family of schemas.                 *)

Embedded(f) == [f EXCEPT !.anonymous = TRUE]

WalkTags == { "", "a", "a.b" }

WalkPrefixes == { "", "p" }

\* The field of parameter cell id with the given tag, embedded or not.
Cell(id, tag, anon) ==
    IF anon THEN Embedded(ParamField(tag, id)) ELSE ParamField(tag, id)

Nested(tag, anon, fields) ==
    IF anon THEN Embedded(StructField(tag, fields)) ELSE StructField(tag, fields)

\* Four layouts of the two cells: cell 1 before a nested struct holding
\* cell 2; cell 1 after it; cell 1 two structs deep; and one cell in each
\* of two registrations.  All fields are exported.
WalkSchemas ==
    { << [prefix |-> pre,
          cfg |-> Struct(<< Cell(1, tagA, anonA), OtherField("o"),
                            Nested(tagS, anonS, << Cell(2, tagB, FALSE) >>) >>)] >> :
        pre \in WalkPrefixes, tagA \in WalkTags, tagB \in WalkTags,
        tagS \in WalkTags, anonA \in BOOLEAN, anonS \in BOOLEAN }
    \cup
    { << [prefix |-> pre,
          cfg |-> Struct(<< Nested(tagS, anonS, << Cell(2, tagB, FALSE),
                                                  OtherField(tagA) >>),
                            Cell(1, tagA, anonA) >>)] >> :
        pre \in WalkPrefixes, tagA \in WalkTags, tagB \in WalkTags,
        tagS \in WalkTags, anonA \in BOOLEAN, anonS \in BOOLEAN }
    \cup
    { << [prefix |-> pre,
          cfg |-> Struct(<< Nested(tagS, anonS,
                                   << Nested(tagB, FALSE,
                                             << Cell(1, tagA, anonA) >>) >>),
                            Cell(2, "z", FALSE) >>)] >> :
        pre \in WalkPrefixes, tagA \in WalkTags, tagB \in WalkTags,
        tagS \in WalkTags, anonA \in BOOLEAN, anonS \in BOOLEAN }
    \cup
    { << [prefix |-> pre, cfg |-> Struct(<< Cell(1, tagA, anonA) >>)],
         [prefix |-> tagS, cfg |-> Struct(<< Cell(2, tagB, FALSE) >>)] >> :
        pre \in WalkPrefixes, tagA \in WalkTags, tagB \in WalkTags,
        tagS \in WalkTags, anonA \in BOOLEAN }

WalkInit ==
    /\ registrations \in WalkSchemas
    /\ params = [i \in ParamIds |-> IF i = 1 THEN HostBuilds[1] ELSE PortBuilds[1]]
    /\ environ = EmptyMap
    /\ files = EmptyMap
    /\ opts = [ConfigFile |-> "", ConfigPaths |-> << >>, EnvPrefix |-> "",
               Args |-> << >>, ListSeparator |-> ""]
    /\ pc = "idle"
    /\ sources = [cli |-> newCLISource(<< >>), env |-> newEnvSource(""),
                  yaml |-> [data |-> EmptyMap]]
    /\ collected = << >>
    /\ idx = 1
    /\ loadErr = << >>
    /\ result = NotRun
    /\ loads = 0
    /\ before = params
    /\ rawValue = [i \in ParamIds |-> NotRun]
    /\ produced = [i \in ParamIds |-> << >>]
    /\ processed = [i \in ParamIds |-> 0]
    /\ rendered = NotRun

\* params := l.collectAllParams(), line 112.
CollectAll ==
    /\ pc = "idle"
    /\ collected' = collectAllParams(registrations, params).list
    /\ params' = collectAllParams(registrations, params).ps
    /\ pc' = "walked"
    /\ UNCHANGED <<rendered, registrations, environ, files, opts, sources, idx, loadErr,
                   result, loads, before, rawValue, produced, processed>>

WalkNext == CollectAll

WalkSpec == WalkInit /\ [][WalkNext]_vars

\* The index paths of the fields of a field list, at any depth.
RECURSIVE PathsIn(_)
PathsIn(fields) ==
    { << i >> : i \in 1..Len(fields) }
      \cup UNION { { << i >> \o q : q \in PathsIn(fields[i].fields) } :
                     i \in { j \in 1..Len(fields) : fields[j].type = "struct" } }

RECURSIVE FieldAtPath(_, _)
FieldAtPath(fields, path) ==
    IF Len(path) = 1 THEN fields[path[1]]
    ELSE FieldAtPath(fields[path[1]].fields, Tail(path))

\* Where the cell id is declared: its registration and its index path.
WhereIs(id) ==
    CHOOSE w \in UNION { { [r |-> r, path |-> q] :
                              q \in PathsIn(registrations[r].cfg.fields) } :
                          r \in 1..Len(registrations) } :
        LET f == FieldAtPath(registrations[w.r].cfg.fields, w.path)
        IN  f.type = "param" /\ f.id = id

\* The fields from the top of the registered struct down to the cell.
Ancestry(id) ==
    [ n \in 1..Len(WhereIs(id).path) |->
        FieldAtPath(registrations[WhereIs(id).r].cfg.fields,
                    SubSeq(WhereIs(id).path, 1, n)) ]

\* Every field on the way down has a cfg tag or is embedded.
Walked(id) ==
    \A n \in 1..Len(Ancestry(id)) :
        Ancestry(id)[n].tag # "" \/ Ancestry(id)[n].anonymous

\* The non-empty members of names joined with ".".
RECURSIVE JoinDots(_)
JoinDots(names) ==
    IF names = << >> THEN ""
    ELSE IF names[1] = "" THEN JoinDots(Tail(names))
    ELSE IF JoinDots(Tail(names)) = "" THEN names[1]
    ELSE names[1] \o "." \o JoinDots(Tail(names))

DottedKey(id) ==
    JoinDots(<< registrations[WhereIs(id).r].prefix >>
               \o [ n \in 1..Len(Ancestry(id)) |-> Ancestry(id)[n].tag ])

\* Cell a is declared before cell b: in an earlier registration, or in the
\* same one with the first difference of their paths at a smaller index.
DeclaredBefore(a, b) ==
    \/ WhereIs(a).r < WhereIs(b).r
    \/ /\ WhereIs(a).r = WhereIs(b).r
       /\ \E n \in 1..Len(WhereIs(a).path) :
             /\ n <= Len(WhereIs(b).path)
             /\ SubSeq(WhereIs(a).path, 1, n - 1) = SubSeq(WhereIs(b).path, 1, n - 1)
             /\ WhereIs(a).path[n] < WhereIs(b).path[n]

Cex_C19_KeysUnique ==
    pc = "walked" =>
        \A n, m \in 1..Len(collected) :
            n # m => params[collected[n]].k # params[collected[m]].k

\* The validators of p that reject its current value, by position.
Rejecting(p) ==
    { n \in 1..Len(p.validators) : Call(p.validators[n], p.value).t # "nil" }

FirstRejecting(p) ==
    CHOOSE n \in Rejecting(p) : \A m \in Rejecting(p) : n <= m

\* C20: a parameter that was coerced or left alone adds at most one
\* ValidationError.  If no validator rejects its current value, every
\* validator was called, in the order attached, and there is none; otherwise
\* the validators were called in that order up to the first that rejects,
\* and the ValidationError has the parameter's key, its current value and
\* that validator's message.
Inv_C20_FirstFailingValidator ==
    \A i \in ParamIds :
        (processed[i] = 1 /\ CountOf(produced[i], "ParseError") = 0) =>
            /\ CountOf(produced[i], "ValidationError") <= 1
            /\ IF Rejecting(params[i]) = {}
               THEN /\ CountOf(produced[i], "ValidationError") = 0
                    /\ validateCalled(params[i], 1)
                          = [ n \in 1..Len(params[i].validators) |-> n ]
               ELSE /\ produced[i][1]
                          = ValidationError(params[i].k, Boxed(params[i]),
                               Call(params[i].validators[FirstRejecting(params[i])],
                                    params[i].value).msg)
                    /\ validateCalled(params[i], 1)
                          = [ n \in 1..FirstRejecting(params[i]) |-> n ]

\* --db.port=-5 with Positive attached before Range(1, 65535): both reject
\* -5, and the one error is that of Positive.
Wit_C20_PositiveBeforeRange ==
    /\ Returned
    /\ params[2].k = "db.port" /\ params[2].value = -5 /\ params[2].set
    /\ Rejecting(params[2]) = { 1, 2 }
    /\ produced[2] = << ValidationError("db.port", IntV(-5),
                            "validation error: value -5 must be positive") >>

\* C21: a parameter that no source supplies in a Load on a fresh schema
\* has its validators applied to its default, or to the zero value if it
\* has no default: it adds one ValidationError, carrying that value,
\* exactly when one of them rejects it, and the value stays in place,
\* unset.
Inv_C21_DefaultIsValidated ==
    \A i \in ParamIds :
        (processed[i] = 1 /\ NoSourceHas(i)) =>
            /\ params[i].value = DefaultOrZero(before[i])
            /\ ~params[i].set
            /\ CountOf(produced[i], "ParseError") = 0
            /\ IF \E n \in 1..Len(before[i].validators) :
                     Call(before[i].validators[n], DefaultOrZero(before[i])).t # "nil"
               THEN /\ CountOf(produced[i], "ValidationError") = 1
                    /\ produced[i][1].t = "ValidationError"
                    /\ produced[i][1].Key = params[i].k
                    /\ produced[i][1].Value
                          = [t |-> params[i].kind, v |-> DefaultOrZero(before[i])]
               ELSE CountOf(produced[i], "ValidationError") = 0

\* Nothing supplies db.port, whose default 0 is rejected by Positive.
Wit_C21_DefaultRejected ==
    /\ Returned
    /\ params[2].k = "db.port" /\ NoSourceHas(2)
    /\ params[2].hasDefVal /\ params[2].defaultVal = 0
    /\ produced[2] = << ValidationError("db.port", IntV(0),
                            "validation error: value 0 must be positive") >>

-----------------------------------------------------------------------------
(* Dump.                                                                   *)

maskedValue == "****"

\* Secret(): the builder method that marks the parameter as secret.
Secret(b) == [b EXCEPT !.secret = TRUE]

\* param.stringValue: the %v rendering of the current value.
stringValue(p) == Sprint(Boxed(p))

\* A dumpParams that tests for "<not set>" before it tests for a secret.
dumpValue_NotSetFirst(p) ==
    IF ~p.set /\ ~p.hasDefVal THEN "<not set>"
    ELSE IF p.secret THEN maskedValue
    ELSE stringValue(p)

\* What dumpParams writes after " = ", lines 31-37.
dumpValue(p) ==
    IF p.secret THEN maskedValue
    ELSE IF ~p.set /\ ~p.hasDefVal THEN "<not set>"
    ELSE stringValue(p)

\* The loop of dumpParams from element i of the list on.
RECURSIVE dumpFrom(_, _, _)
dumpFrom(list, ps, i) ==
    IF i > Len(list) THEN ""
    ELSE (IF i > 1 THEN "\n" ELSE "")
            \o ps[list[i]].k \o " = " \o dumpValue(ps[list[i]])
            \o dumpFrom(list, ps, i + 1)

dumpParams(list, ps) == dumpFrom(list, ps, 1)

DumpHostBuilds ==
    << Build(Default(NewBuilder("string"), "localhost")),
       Build(Required(Secret(NewBuilder("string")))),
       Build(Default(Secret(NewBuilder("string")), "pw")),
       Build(NewBuilder("string")) >>

DumpPortBuilds ==
    << Build(Default(NewBuilder("int"), 5432)), Build(NewBuilder("int")) >>

\* The two layouts of RegistrationSets and a struct without fields.
DumpRegistrationSets ==
    RegistrationSets \o << << [prefix |-> "", cfg |-> Struct(<< >>)] >> >>

DumpInit ==
    /\ \E r \in 1..Len(DumpRegistrationSets) :
          registrations = DumpRegistrationSets[r]
    /\ \E h \in 1..Len(DumpHostBuilds), q \in 1..Len(DumpPortBuilds) :
          params = [i \in ParamIds |->
                      IF i = 1 THEN DumpHostBuilds[h] ELSE DumpPortBuilds[q]]
    /\ environ = EmptyMap
    /\ files = EmptyMap
    /\ opts = [ConfigFile |-> "", ConfigPaths |-> << >>, EnvPrefix |-> "",
               Args |-> << >>, ListSeparator |-> ""]
    /\ pc = "idle"
    /\ sources = [cli |-> newCLISource(<< >>), env |-> newEnvSource(""),
                  yaml |-> [data |-> EmptyMap]]
    /\ collected = << >>
    /\ idx = 1
    /\ loadErr = << >>
    /\ result = NotRun
    /\ loads = 0
    /\ before = params
    /\ rawValue = [i \in ParamIds |-> NotRun]
    /\ produced = [i \in ParamIds |-> << >>]
    /\ processed = [i \in ParamIds |-> 0]
    /\ rendered = NotRun

\* The Load of a program that loads once and dumps what it has.
LoadThenDump ==
    /\ loads = 0
    /\ Load

\* Dump(cfg) on the struct of registration r: collectParams with an empty
\* prefix, which sets the keys again, then dumpParams.
Dump(r) ==
    LET one == collectParams(registrations[r].cfg, "", params)
    IN  /\ pc \in {"idle", "done"}
        /\ params' = one.ps
        /\ rendered' = Str(dumpParams(one.list, one.ps))
        /\ UNCHANGED <<registrations, environ, files, opts, pc, sources,
                       collected, idx, loadErr, result, loads, before,
                       rawValue, produced, processed>>

\* Loader.Dump: collectAllParams, then dumpParams.
LoaderDump ==
    LET all == collectAllParams(registrations, params)
    IN  /\ pc \in {"idle", "done"}
        /\ params' = all.ps
        /\ rendered' = Str(dumpParams(all.list, all.ps))
        /\ UNCHANGED <<registrations, environ, files, opts, pc, sources,
                       collected, idx, loadErr, result, loads, before,
                       rawValue, produced, processed>>

DumpNext ==
    \/ LoadThenDump \/ LoadParamStep \/ LoadReturn
    \/ \E r \in 1..Len(registrations) : Dump(r)
    \/ LoaderDump

DumpSpec == DumpInit /\ [][DumpNext]_vars

\* The cell id is declared in a registered struct.
Declared(id) ==
    \E r \in 1..Len(registrations) :
        \E q \in PathsIn(registrations[r].cfg.fields) :
            LET f == FieldAtPath(registrations[r].cfg.fields, q)
            IN  f.type = "param" /\ f.id = id

\* The cells a dump can be about: those of every registration, or those of
\* one registered struct.
DumpedCells ==
    { { id \in ParamIds : Declared(id) /\ Walked(id) } }
      \cup { { id \in ParamIds :
                 Declared(id) /\ Walked(id) /\ WhereIs(id).r = r } :
               r \in 1..Len(registrations) }

\* The line the dump owes to a parameter.
LineOf(p) ==
    p.k \o " = " \o
        (IF p.secret THEN "****"
         ELSE IF ~p.set /\ ~p.hasDefVal THEN "<not set>"
         ELSE IF p.kind = "int" THEN Itoa(p.value)
         ELSE p.value)

\* The text is one line per cell of S, in the order of declaration.
RenderedFrom(S) ==
    LET lines == IF rendered.v = "" THEN << >> ELSE Split(rendered.v, "\n")
    IN  /\ Len(lines) = Cardinality(S)
        /\ \A id \in S :
              lines[1 + Cardinality({ j \in S : DeclaredBefore(j, id) })]
                  = LineOf(params[id])

DumpIsFaithful ==
    /\ rendered.t = "string"
    /\ \E S \in DumpedCells : RenderedFrom(S)

\* C22: the text a dump returns is one "key = value" line per parameter of
\* the schema in walk order, the lines joined by newlines with none at the
\* end, and empty for a schema without parameters; the value of a secret
\* parameter is "****" whatever was set, that of a parameter that is not
\* secret, not set and without default is "<not set>", and that of any
\* other parameter is its current value.
Inv_C22_DumpShowsEveryParameter ==
    [][rendered' # rendered => DumpIsFaithful']_vars

\* A required secret that nothing supplied is masked, next to a port that
\* is not set, after a Load that reported the missing secret.
Wit_C22_SecretMaskedWhenUnset ==
    /\ rendered = Str("db.host = ****\ndb.port = <not set>")
    /\ pc = "done"
    /\ result = [t |-> "LoadError", Errors |-> << RequiredError("db.host") >>]
    /\ params[1].secret /\ ~params[1].set /\ ~params[1].hasDefVal
    /\ ~params[2].set /\ ~params[2].hasDefVal

-----------------------------------------------------------------------------
(* The text of the errors.                                                 *)

MaxErrors == 3

\* strconv.NumError.Error.
NumError_Error(e) ==
    "strconv." \o e.Func \o ": parsing " \o Quote(e.Num) \o ": " \o e.Err

\* The %v of the error a ParseError wraps.
WrappedText(err) ==
    IF "Func" \in DOMAIN err THEN NumError_Error(err) ELSE err.msg

ParseError_Error(e) ==
    IF e.Err # Nil
    THEN "failed to parse " \o Quote(e.Value) \o " as " \o e.Expected
            \o " for key " \o Quote(e.Key) \o ": " \o WrappedText(e.Err)
    ELSE "failed to parse " \o Quote(e.Value) \o " as " \o e.Expected
            \o " for key " \o Quote(e.Key)

ValidationError_Error(e) ==
    "validation failed for " \o Quote(e.Key) \o " (value: " \o Sprint(e.Value)
        \o "): " \o e.Message

RequiredError_Error(e) ==
    "required parameter " \o Quote(e.Key) \o " is not set"

\* err.Error() by the dynamic type of err.
ErrorText(e) ==
    CASE e.t = "ParseError"      -> ParseError_Error(e)
      [] e.t = "ValidationError" -> ValidationError_Error(e)
      [] e.t = "RequiredError"   -> RequiredError_Error(e)
      [] OTHER                   -> e.msg

\* The loop of LoadError.Error.
RECURSIVE errorLines(_)
errorLines(errs) ==
    IF errs = << >> THEN ""
    ELSE "  - " \o ErrorText(errs[1]) \o "\n" \o errorLines(Tail(errs))

\* A LoadError.Error without the case of a single error.
LoadError_Error_AlwaysList(errs) ==
    Itoa(Len(errs)) \o " configuration errors:\n" \o errorLines(errs)

LoadError_Error(errs) ==
    IF Len(errs) = 1 THEN ErrorText(errs[1])
    ELSE Itoa(Len(errs)) \o " configuration errors:\n" \o errorLines(errs)

\* The errors a LoadError is filled with: those of the README and of
\* TestLoad_ErrorMessages.
ErrorPool ==
    { RequiredError("db.name"),
      ParseError("db.port", "abc", "int", Atoi("abc").err),
      ParseError("mykey", "myval", "int", Nil),
      ValidationError("db.max_conns", IntV(99999),
          "validation error: value 99999 is not in range [1, 65535]"),
      errorString("single error") }

RECURSIVE SeqsUpTo(_, _)
SeqsUpTo(S, n) ==
    IF n = 0 THEN { << >> }
    ELSE SeqsUpTo(S, n - 1)
           \cup { Append(q, e) : q \in { r \in SeqsUpTo(S, n - 1) : Len(r) = n - 1 },
                                 e \in S }

ErrInit ==
    /\ registrations = << >>
    /\ params = [i \in ParamIds |->
                   IF i = 1 THEN HostBuilds[1] ELSE PortBuilds[1]]
    /\ environ = EmptyMap
    /\ files = EmptyMap
    /\ opts = [ConfigFile |-> "", ConfigPaths |-> << >>, EnvPrefix |-> "",
               Args |-> << >>, ListSeparator |-> ""]
    /\ pc = "idle"
    /\ sources = [cli |-> newCLISource(<< >>), env |-> newEnvSource(""),
                  yaml |-> [data |-> EmptyMap]]
    /\ collected = << >>
    /\ idx = 1
    /\ loadErr \in SeqsUpTo(ErrorPool, MaxErrors)
    /\ result = [t |-> "LoadError", Errors |-> loadErr]
    /\ loads = 0
    /\ before = params
    /\ rawValue = [i \in ParamIds |-> NotRun]
    /\ produced = [i \in ParamIds |-> << >>]
    /\ processed = [i \in ParamIds |-> 0]
    /\ rendered = NotRun

\* A call of Error() on the LoadError.
CallError ==
    /\ pc = "idle"
    /\ pc' = "printed"
    /\ rendered' = Str(LoadError_Error(result.Errors))
    /\ UNCHANGED <<registrations, params, environ, files, opts, sources,
                   collected, idx, loadErr, result, loads, before, rawValue,
                   produced, processed>>

ErrSpec == ErrInit /\ [][CallError]_vars

\* C23: the text of a LoadError that holds one error is the message of that
\* error; the text of one that holds N errors, N not 1, is the line
\* "N configuration errors:" followed, for each error in the order in which
\* it is stored, by a line of two spaces, "- " and its message, every line
\* ended by a newline.
Inv_C23_LoadErrorText ==
    pc = "printed" =>
        LET errs == result.Errors
        IN  /\ rendered.t = "string"
            /\ IF Len(errs) = 1 THEN rendered.v = ErrorText(errs[1])
               ELSE Split(rendered.v, "\n")
                      = << Itoa(Len(errs)) \o " configuration errors:" >>
                          \o [ n \in 1..Len(errs) |-> "  - " \o ErrorText(errs[n]) ]
                          \o << "" >>

\* The two first lines of the README's example.
Wit_C23_TwoErrorsListed ==
    /\ pc = "printed"
    /\ result.Errors = << RequiredError("db.name"),
                          ParseError("db.port", "abc", "int", Atoi("abc").err) >>
    /\ rendered = Str("2 configuration errors:\n  - required parameter \"db.name\" is not set\n  - failed to parse \"abc\" as int for key \"db.port\": strconv.Atoi: parsing \"abc\": invalid syntax\n")

\* One error alone is printed without header and without newline.
Wit_C23_SingleError ==
    /\ pc = "printed"
    /\ result.Errors = << errorString("single error") >>
    /\ rendered = Str("single error")

\* No error at all still gives the header.
Wit_C23_NoError ==
    /\ pc = "printed"
    /\ result.Errors = << >>
    /\ rendered = Str("0 configuration errors:\n")

-----------------------------------------------------------------------------
(* The coercions of the ten kinds, one call on a fresh parameter.          *)

\* The five scalar kinds and the five list kinds.
Kinds ==
    << "string", "int", "bool", "float64", "duration",
       "[]string", "[]int", "[]bool", "[]float64", "[]duration" >>

\* A default of each kind.
DefaultOf(kind) ==
    CASE kind = "string"     -> "d"
      [] kind = "int"        -> 7
      [] kind = "bool"       -> TRUE
      [] kind = "float64"    -> 1500
      [] kind = "duration"   -> Dur(5, 0)
      [] kind = "[]string"   -> << "a", "b" >>
      [] kind = "[]int"      -> << 1, 2 >>
      [] kind = "[]bool"     -> << TRUE >>
      [] kind = "[]float64"  -> << 1500 >>
      [] kind = "[]duration" -> << Dur(1, 0) >>

\* A parameter of each kind, without and with a default.
CoerceBuilds ==
    [ n \in 1..20 |->
        IF n <= 10
        THEN Build(NewBuilder(Kinds[n]))
        ELSE Build(Default(NewBuilder(Kinds[n - 10]), DefaultOf(Kinds[n - 10]))) ]

CoerceTexts ==
    << "", "1,2,3", "1, x,y", "true,0", "t,maybe", "1.5,2", "1s,1m", "1s,5",
       "abc", "42", "a,,b", "1;2", " 7 ", "1h30m", "-3", "x;8;9" >>

\* What the file adapter can hand over besides a text, and two typed
\* slices.
CoerceValues ==
    << Nil, IntV(5), FloatV(2500), BoolV(TRUE), ListV(<< >>),
       ListV(<< IntV(1), IntV(2) >>),
       ListV(<< IntV(1), Str("x"), IntV(3) >>),
       ListV(<< BoolV(TRUE), BoolV(FALSE) >>),
       ListV(<< FloatV(1500), IntV(2) >>),
       ListV(<< Str("1s"), Str("bad"), Str("2s") >>),
       SliceV("int", << 4, 5 >>), SliceV("string", << "a" >>),
       MapV([a |-> IntV(1)]) >>

CoerceInit ==
    /\ registrations = << [prefix |-> "",
                           cfg |-> Struct(<< ParamField("v", 1),
                                             ParamField("w", 2) >>)] >>
    /\ \E n \in 1..Len(CoerceBuilds) :
          params = collectAllParams(registrations,
                      [i \in ParamIds |->
                          IF i = 1 THEN CoerceBuilds[n] ELSE PortBuilds[1]]).ps
    /\ environ = EmptyMap
    /\ files = EmptyMap
    /\ \E sep \in {",", ";"} :
          opts = [ConfigFile |-> "", ConfigPaths |-> << >>, EnvPrefix |-> "",
                  Args |-> << >>, ListSeparator |-> sep]
    /\ pc = "idle"
    /\ sources = [cli |-> newCLISource(<< >>), env |-> newEnvSource(""),
                  yaml |-> [data |-> EmptyMap]]
    /\ collected = << 1, 2 >>
    /\ idx = 1
    /\ loadErr = << >>
    /\ result = NotRun
    /\ loads = 0
    /\ before = params
    /\ rawValue = [i \in ParamIds |-> NotRun]
    /\ produced = [i \in ParamIds |-> << >>]
    /\ processed = [i \in ParamIds |-> 0]
    /\ rendered = NotRun

\* p.setFromString(s, opts.ListSeparator) on parameter 1.
SetFromString(s) ==
    LET r == setFromString(params[1], s, opts.ListSeparator)
    IN  /\ pc = "idle"
        /\ pc' = "text"
        /\ params' = [params EXCEPT ![1] = r.p]
        /\ rawValue' = [rawValue EXCEPT ![1] = Str(s)]
        /\ produced' = [produced EXCEPT ![1] =
                           IF r.err = Nil THEN << >> ELSE << r.err >>]
        /\ processed' = [processed EXCEPT ![1] = 1]
        /\ UNCHANGED <<registrations, environ, files, opts, sources, collected,
                       idx, loadErr, result, loads, before, rendered>>

\* p.setFromAny(v, opts.ListSeparator) on parameter 1.
SetFromAny(v) ==
    LET r == setFromAny(params[1], v, opts.ListSeparator)
    IN  /\ pc = "idle"
        /\ pc' = "any"
        /\ params' = [params EXCEPT ![1] = r.p]
        /\ rawValue' = [rawValue EXCEPT ![1] = v]
        /\ produced' = [produced EXCEPT ![1] =
                           IF r.err = Nil THEN << >> ELSE << r.err >>]
        /\ processed' = [processed EXCEPT ![1] = 1]
        /\ UNCHANGED <<registrations, environ, files, opts, sources, collected,
                       idx, loadErr, result, loads, before, rendered>>

CoerceNext ==
    \/ \E n \in 1..Len(CoerceTexts) : SetFromString(CoerceTexts[n])
    \/ \E n \in 1..Len(CoerceValues) : SetFromAny(CoerceValues[n])
    \/ \E n \in 1..Len(CoerceTexts) : SetFromAny(Str(CoerceTexts[n]))

CoerceSpec == CoerceInit /\ [][CoerceNext]_vars

\* Parameter 1 was given a text, through either entry point.
TextGiven == pc \in {"text", "any"} /\ rawValue[1].t = "string"

IsListKind(kind) == HasPrefix(kind, "[]")

\* The element kind of a list kind.
ElemOf(kind) == SubSeq(kind, 3, Len(kind))

\* The positions of the separator in s, with the two ends.
Cuts(s, sep) ==
    {0} \cup { j \in 1..Len(s) : Char(s, j) = sep } \cup {Len(s) + 1}

NthCut(s, sep, n) ==
    CHOOSE c \in Cuts(s, sep) :
        Cardinality({ d \in Cuts(s, sep) : d < c }) = n - 1

PartCount(s, sep) == Cardinality(Cuts(s, sep)) - 1

\* The n-th part of s: the text between two neighbouring cuts.
PartAt(s, sep, n) == SubSeq(s, NthCut(s, sep, n) + 1, NthCut(s, sep, n + 1) - 1)

\* What part n of the text given to parameter 1 converts to.
PartParsed(n) ==
    ParseElem(ElemOf(params[1].kind),
              TrimSpace(PartAt(rawValue[1].v, opts.ListSeparator, n)))

\* The parts of the text given to parameter 1 that do not convert.
BadParts ==
    { n \in 1..PartCount(rawValue[1].v, opts.ListSeparator) : ~PartParsed(n).ok }

\* C24: a list parameter of any of the five kinds that is given the empty
\* text holds the empty list afterwards, is set, and no error is returned;
\* given a text that is not empty and converts, it holds one element per
\* part between separators, in the order of the parts, and is set; a list
\* of texts always converts.
Inv_C24_EmptyTextIsEmptyList ==
    (TextGiven /\ IsListKind(params[1].kind)) =>
        LET s   == rawValue[1].v
            sep == opts.ListSeparator
        IN  /\ s = "" =>
                  /\ params[1].value = << >>
                  /\ params[1].set
                  /\ produced[1] = << >>
            /\ params[1].kind = "[]string" => produced[1] = << >>
            /\ (s # "" /\ produced[1] = << >>) =>
                  /\ params[1].set
                  /\ Len(params[1].value) = PartCount(s, sep)
                  /\ \A n \in 1..PartCount(s, sep) :
                        params[1].value[n] =
                            IF params[1].kind = "[]string"
                            THEN PartAt(s, sep, n)
                            ELSE PartParsed(n).v

\* An int list with the default [1 2] given the empty text is empty and set.
Wit_C24_EmptyTextReplacesDefault ==
    /\ pc = "text"
    /\ rawValue[1] = Str("")
    /\ before[1].kind = "[]int" /\ before[1].value = << 1, 2 >>
    /\ params[1].value = << >> /\ params[1].set
    /\ produced[1] = << >>

\* A duration list given "1s,1m" holds the two durations in that order.
Wit_C24_TwoDurations ==
    /\ pc = "text"
    /\ rawValue[1] = Str("1s,1m")
    /\ opts.ListSeparator = ","
    /\ params[1].kind = "[]duration"
    /\ params[1].value = << Dur(1, 0), Dur(60, 0) >>
    /\ params[1].set

\* C25: when a part of the text given to a list parameter of ints, bools,
\* floats or durations does not convert, the coercion returns one
\* ParseError, whose Value is the text of the first such part as it stands
\* between the separators and whose Expected is the element kind, whatever
\* the parts after it are, and the parameter is not set; without such a
\* part it returns no error.
Inv_C25_FirstBadElement ==
    (TextGiven /\ IsListKind(params[1].kind) /\ params[1].kind # "[]string"
        /\ rawValue[1].v # "") =>
        IF BadParts = {} THEN produced[1] = << >>
        ELSE /\ produced[1]
                  = << ParseError(params[1].k,
                           PartAt(rawValue[1].v, opts.ListSeparator, Least(BadParts)),
                           ElemOf(params[1].kind),
                           PartParsed(Least(BadParts)).err) >>
             /\ ~params[1].set

\* "1, x,y" for an int list: the error is about " x", not about "y".
Wit_C25_SecondOfThreeFails ==
    /\ pc = "text"
    /\ rawValue[1] = Str("1, x,y")
    /\ opts.ListSeparator = ","
    /\ params[1].kind = "[]int"
    /\ produced[1] = << ParseError("v", " x", "int", Atoi("x").err) >>
    /\ ~params[1].set

\* C29: after a coercion that returned a ParseError, whatever the kind of
\* the parameter and the entry point, the parameter is as it was before:
\* its value is the default or the zero value and isSet has not changed.
Cex_C29_FailedCoercionChangesNothing ==
    (pc \in {"text", "any"} /\ produced[1] # << >>) =>
        /\ params[1].value = before[1].value
        /\ params[1].set = before[1].set

-----------------------------------------------------------------------------
(* Several registrations.                                                  *)

\* C26: a Load goes once through the parameters of every registration, the
\* registrations in the order in which they were registered and the
\* parameters of each in walk order; the key of each starts with the prefix
\* of its registration; the raw value of each comes from the same CLI,
\* environment and file adapters; and the errors of all of them are
\* returned in one LoadError, nil if there is none.
Inv_C26_AllRegistrationsOnePass ==
    Returned =>
        /\ \A id \in ParamIds :
              (\E n \in 1..Len(collected) : collected[n] = id)
                  <=> (Declared(id) /\ Walked(id))
        /\ Len(collected)
              = Cardinality({ id \in ParamIds : Declared(id) /\ Walked(id) })
        /\ \A n, m \in 1..Len(collected) :
              n < m => DeclaredBefore(collected[n], collected[m])
        /\ \A n \in 1..Len(collected) :
              LET id == collected[n]
              IN  /\ params[id].k = DottedKey(id)
                  /\ HasPrefix(params[id].k, registrations[WhereIs(id).r].prefix)
                  /\ processed[id] = 1
                  /\ SameAny(rawValue[id],
                             IF InCLI(id).t # "nil" THEN InCLI(id)
                             ELSE IF InEnv(id).t # "nil" THEN InEnv(id)
                             ELSE InFile(id))
        /\ result = IF ProducedAlong(collected) = << >> THEN Nil
                    ELSE [t |-> "LoadError", Errors |-> ProducedAlong(collected)]

\* The port is registered before the host; the port's text from the
\* command line does not parse and the required host is missing and empty,
\* and the errors of both come back together, the port's first.
Wit_C26_TwoRegistrationsOneLoadError ==
    /\ Returned
    /\ Len(registrations) = 2
    /\ WhereIs(2).r = 1 /\ WhereIs(1).r = 2
    /\ collected = << 2, 1 >>
    /\ result.t = "LoadError"
    /\ Len(result.Errors) = 3
    /\ result.Errors[1].t = "ParseError" /\ result.Errors[1].Key = "db.port"
    /\ result.Errors[2].t = "ValidationError" /\ result.Errors[2].Key = "db.host"
    /\ result.Errors[3].t = "RequiredError" /\ result.Errors[3].Key = "db.host"

-----------------------------------------------------------------------------
(* The choice of the file.                                                 *)

\* The positions of ConfigPaths whose path exists.
ExistingPaths ==
    { n \in 1..Len(opts.ConfigPaths) :
        FileAt(files, opts.ConfigPaths[n]).t # "missing" }

\* The path the Load is to use: ConfigFile if it is given, else the first
\* of ConfigPaths that exists, else none.
PathToUse ==
    IF opts.ConfigFile # "" THEN opts.ConfigFile
    ELSE IF ExistingPaths # {} THEN opts.ConfigPaths[Least(ExistingPaths)]
    ELSE ""

\* C27: the file adapter of a Load is built from ConfigFile alone when it
\* is given, whether that file exists or not and whatever ConfigPaths
\* holds, and otherwise from the first path of ConfigPaths that exists;
\* when the path so chosen is none or does not exist, the adapter holds no
\* data and the Load does not fail for it; when it is a file that parses,
\* the adapter holds the tree of that file; when it cannot be read or
\* parsed, the Load returns the error about that path.
Inv_C27_FilePathSelection ==
    loads = 1 =>
        /\ (PathToUse = "" \/ FileAt(files, PathToUse).t = "missing") =>
              /\ sources.yaml.data = EmptyMap
              /\ result.t # "error"
        /\ (PathToUse # "" /\ FileAt(files, PathToUse).t = "yaml") =>
              /\ sources.yaml.data = FileAt(files, PathToUse).data
              /\ result.t # "error"
        /\ (PathToUse # ""
              /\ FileAt(files, PathToUse).t \in {"unreadable", "malformed"}) =>
              /\ result.t = "error"
              /\ result.err.path = PathToUse

\* Of a.yaml, b.yaml and c.yaml the first does not exist and the two
\* others do: the tree is that of b.yaml.
Wit_C27_FirstExistingOfThree ==
    /\ Returned
    /\ opts.ConfigFile = ""
    /\ opts.ConfigPaths = << "a.yaml", "b.yaml", "c.yaml" >>
    /\ ExistingPaths = {2, 3}
    /\ sources.yaml.data = YamlOdd
    /\ YamlOdd # FileAt(files, "c.yaml").data

\* ConfigFile names a file that does not exist and ConfigPaths one that
\* does: nothing is read.
Wit_C27_ConfigPathsNotConsulted ==
    /\ Returned
    /\ opts.ConfigFile = "nowhere.yaml"
    /\ ExistingPaths = {1}
    /\ sources.yaml.data = EmptyMap

-----------------------------------------------------------------------------
(* No second try.                                                          *)

\* The value of the first of CLI, environment and file that has the key of
\* parameter i.
Winning(i) ==
    IF InCLI(i).t # "nil" THEN InCLI(i)
    ELSE IF InEnv(i).t # "nil" THEN InEnv(i)
    ELSE InFile(i)

\* A source below the winning one has a value for parameter i that can be
\* coerced.
LowerWouldCoerce(i) ==
    \/ /\ InCLI(i).t # "nil" /\ InEnv(i).t # "nil"
       /\ Coerce(Entered(i), InEnv(i)).err.t = "nil"
    \/ /\ (InCLI(i).t # "nil" \/ InEnv(i).t # "nil") /\ InFile(i).t # "nil"
       /\ Coerce(Entered(i), InFile(i)).err.t = "nil"

\* C28: when the value of the first source that has the key cannot be
\* coerced, the value that was coerced is that one, the parameter yields
\* the ParseError of that value and nothing else, and it is not set,
\* whatever the sources below hold.
Inv_C28_NoFallback ==
    \A i \in ParamIds :
        (processed[i] = 1 /\ Winning(i).t # "nil"
           /\ Coerce(Entered(i), Winning(i)).err.t # "nil") =>
            /\ SameAny(rawValue[i], Winning(i))
            /\ produced[i] = << Coerce(Entered(i), Winning(i)).err >>
            /\ ~params[i].set
            /\ Returned => ErrorsFor(result.Errors, params[i].k) = produced[i]

\* The command line has "not-a-number" for db.port and the environment
\* has 99999, which would parse: the outcome is the ParseError alone.
Wit_C28_EnvWouldCoerce ==
    /\ Returned
    /\ params[2].k = "db.port"
    /\ InCLI(2) = Str("not-a-number")
    /\ InEnv(2) = Str("99999")
    /\ LowerWouldCoerce(2)
    /\ produced[2] = << ParseError("db.port", "not-a-number", "int",
                                   Atoi("not-a-number").err) >>
    /\ ~params[2].set

-----------------------------------------------------------------------------
(* The shape of the aggregate.                                             *)

\* The position in the walk of the parameter with key k.
WalkPosition(k) ==
    CHOOSE n \in 1..Len(collected) : params[collected[n]].k = k

\* What one parameter may contribute: nothing, one error of any of the
\* three kinds, or a ValidationError followed by a RequiredError.
OneParameterShape(errs) ==
    \/ errs = << >>
    \/ Len(errs) = 1
          /\ errs[1].t \in {"ParseError", "ValidationError", "RequiredError"}
    \/ Len(errs) = 2
          /\ errs[1].t = "ValidationError" /\ errs[2].t = "RequiredError"

\* C30: every error of the LoadError that a Load returns carries the key
\* of a parameter of the walk; the errors stand in the order in which
\* their parameters were walked; and the errors of one parameter are
\* either one ParseError alone, or at most one ValidationError followed by
\* at most one RequiredError.
Inv_C30_OrderAndMultiplicity ==
    (Returned /\ result.t = "LoadError") =>
        /\ \A n \in 1..Len(result.Errors) :
              \E m \in 1..Len(collected) :
                  params[collected[m]].k = result.Errors[n].Key
        /\ \A n, m \in 1..Len(result.Errors) :
              n < m => WalkPosition(result.Errors[n].Key)
                         <= WalkPosition(result.Errors[m].Key)
        /\ \A i \in ParamIds :
              OneParameterShape(ErrorsFor(result.Errors, params[i].k))

\* The host is required, has no default and must not be empty, and nothing
\* supplies it; the port, walked first, does not parse: the port's
\* ParseError, then the host's ValidationError, then its RequiredError.
Wit_C30_ValidationThenRequired ==
    /\ Returned
    /\ collected = << 2, 1 >>
    /\ NoSourceHas(1)
    /\ result = [t |-> "LoadError",
                 Errors |-> << ParseError("db.port", "not-a-number", "int",
                                          Atoi("not-a-number").err),
                               ValidationError("db.host", Str(""),
                                   "validation error: string must not be empty"),
                               RequiredError("db.host") >>]

====
